---- MODULE Spec2Model ----
(***************************************************************************)
(* Model of tigris_boto3_ext/_internal.py: the process-wide                *)
(* _handler_registry and HeaderInjector.register / unregister, together    *)
(* with the client's event hook (client.meta.events) that the injector     *)
(* calls and the handler closure that the hook runs on a request.          *)
(*                                                                         *)
(* Python objects that are compared or shared by identity (the shared      *)
(* headers dict of an entry, the handler closure) are numbered: heap[o] is *)
(* the content of dict object o.  _create_handler is called exactly once   *)
(* per fresh dict (lines 57-58), so a handler and the dict it closes over  *)
(* carry the same number.                                                  *)
(***************************************************************************)
EXTENDS Integers, Sequences, FiniteSets, TLC

VARIABLES
    handles,      \* the HeaderInjector objects: client, event_name, headers
    registry,     \* _handler_registry: key -> (handler, ref_count, shared_headers)
    heap,         \* content of every live shared-headers dict object
    installed,    \* client.meta.events: (client, event) -> handlers, in registration order
    active,       \* history: register() calls of a handle not yet matched by its unregister()
    done,         \* history: the handle's last call was an unregister() matching its register()
    disciplined,  \* history: no unregister() was called on a handle with nothing to match
    lastOp,       \* history: the last call made by the sequential caller
    pc,           \* per thread: the line it is about to execute
    local,        \* per thread: the locals of the running method
    unregCalls,   \* history: events.unregister invocations per handler object
    stack,        \* the with-blocks the caller is inside of, outermost first
    pending,      \* the exception in flight in the caller, "none" when there is none
    call,         \* history: the last scope-level step of the caller
    peak,         \* history: the deepest nesting of with-blocks reached so far
    faults,       \* history: failures of the client's event system so far
    ident,        \* id() of each client object, 0 while the name is bound to no object
    held          \* the handle objects the caller still refers to

vars == <<handles, registry, heap, installed, active, done, disciplined, lastOp,
          pc, local, unregCalls, stack, pending, call, peak, faults, ident, held>>

\* the state of the scope layer (context managers, decorators, helpers)
ScopeVars == <<stack, pending, call, peak, faults>>

\* the objects the caller has created and not dropped
LifeVars == <<ident, held>>

----------------------------------------------------------------------------
(* Bounds and input sets *)

MaxActive == 2

Handles == {"h1", "h2", "h3"}

Threads == {"t1", "t2", "t3"}

Clients == {"c1", "c2"}

Operations == {"CreateBucket", "GetObject"}

MaxObjects == 6

ObjIds == 1 .. MaxObjects

HdrEnable == "X-Tigris-Enable-Snapshot"

HdrForkSource == "X-Tigris-Fork-Source-Bucket"

HdrForkSnapshot == "X-Tigris-Fork-Source-Bucket-Snapshot"

EmptyDict == [n \in {} |-> ""]

\* the header dictionaries callers pass to create_header_injector
HeaderChoices ==
    { [n \in {HdrEnable} |-> "true"],
      [n \in {HdrForkSource} |-> "bucket-a"],
      [n \in {HdrForkSource, HdrForkSnapshot} |->
          IF n = HdrForkSource THEN "bucket-b" ELSE "v1"] }

----------------------------------------------------------------------------
(* Pure helpers *)

\* f"before-sign.s3.{operation}"
EventName(operation) == "before-sign.s3." \o operation

Events == { EventName(op) : op \in Operations }

\* id(client) of the clients created at the start: distinct live client
\* objects have distinct identity numbers
IdOf(client) == IF client = "c1" THEN 1 ELSE 2

\* HeaderInjector.__init__ followed by set_headers(headers)
create_header_injector(client, operation, headers) ==
    [client |-> client, event_name |-> EventName(operation), headers |-> headers]

\* self._registry_key = (id(client), event_name)
RegistryKeyByClient(h) == <<IdOf(handles[h].client), EventName("CreateBucket")>>

RegistryKey(h) == <<ident[handles[h].client], handles[h].event_name>>

\* where the client keeps the handlers of the handle's event
HookOf(h) == <<handles[h].client, handles[h].event_name>>

\* dict.update: names of other are added, colliding names overwritten
DictUpdateKeepFirst(d, other) ==
    [n \in DOMAIN d \cup DOMAIN other |-> IF n \in DOMAIN d THEN d[n] ELSE other[n]]

DictUpdate(d, other) ==
    [n \in DOMAIN d \cup DOMAIN other |-> IF n \in DOMAIN other THEN other[n] ELSE d[n]]

\* `self._registry_key in _handler_registry` (register, line 50)
HasEntryNever(key) == FALSE

HasEntry(key) == key \in DOMAIN registry

\* `self._registry_key not in _handler_registry` (unregister, line 64)
NotRegisteredNever(key) == FALSE

NotRegistered(key) == key \notin DOMAIN registry

\* `ref_count > 1` (unregister, line 69)
StillNestedAlways(ref_count) == ref_count > 0

StillNestedNever(ref_count) == FALSE

StillNestedAboveTwo(ref_count) == ref_count > 2

StillNested(ref_count) == ref_count > 1

\* the entry written back by register, line 54: (handler, ref_count + 1, shared_headers)
IncrementedKeepsCount(e) ==
    [handler |-> e.handler, ref_count |-> e.ref_count,
     shared_headers |-> e.shared_headers]

Incremented(e) ==
    [handler |-> e.handler, ref_count |-> e.ref_count + 1,
     shared_headers |-> e.shared_headers]

\* the entry written back by unregister, line 71: (handler, ref_count - 1, shared_headers)
DecrementedKeepsCount(e) ==
    [handler |-> e.handler, ref_count |-> e.ref_count,
     shared_headers |-> e.shared_headers]

DecrementedByTwo(e) ==
    [handler |-> e.handler, ref_count |-> e.ref_count - 2,
     shared_headers |-> e.shared_headers]

Decremented(e) ==
    [handler |-> e.handler, ref_count |-> e.ref_count - 1,
     shared_headers |-> e.shared_headers]

\* _handler_registry[key] = entry
RegistryPut(reg, key, entry) ==
    [k \in DOMAIN reg \cup {key} |-> IF k = key THEN entry ELSE reg[k]]

\* del _handler_registry[key]
RegistryDelKeeps(reg, key) == reg

RegistryDelClient(reg, key) == [k \in { x \in DOMAIN reg : x[1] # key[1] } |-> reg[k]]

RegistryDel(reg, key) == [k \in DOMAIN reg \ {key} |-> reg[k]]

\* objects still referenced from the registry, a client's hook or a running thread
Referenced(reg, inst, loc) ==
    { reg[k].handler : k \in DOMAIN reg }
    \cup UNION { { inst[hk][i] : i \in 1 .. Len(inst[hk]) } : hk \in DOMAIN inst }
    \cup { loc[t].handler : t \in DOMAIN loc }

InUse == Referenced(registry, installed, local)

\* a new object gets the lowest number that no live object has
NewObj == CHOOSE o \in ObjIds : o \notin InUse /\ \A p \in ObjIds : p < o => p \in InUse

CanAllocate == \E o \in ObjIds : o \notin InUse

\* client.meta.events.register(event_name, handler): appended to the event's handlers
EventsRegisterTwice(inst, hook, handler) ==
    [inst EXCEPT ![hook] = Append(Append(@, handler), handler)]

EventsRegister(inst, hook, handler) ==
    [inst EXCEPT ![hook] = Append(@, handler)]

\* client.meta.events.unregister(event_name, handler): removed if present, else nothing
EventsUnregisterOther(inst, hook, handler) ==
    [inst EXCEPT ![hook] = SelectSeq(@, LAMBDA x : x # handler + 1)]

EventsUnregister(inst, hook, handler) ==
    [inst EXCEPT ![hook] = SelectSeq(@, LAMBDA x : x # handler)]

\* the handler closure (lines 42-44) run on a request's headers
RunHandlerIgnoresShared(o, reqHeaders) == reqHeaders

RunHandler(o, reqHeaders) == DictUpdate(reqHeaders, heap[o])

RECURSIVE RunHandlers(_, _)
RunHandlers(hs, reqHeaders) ==
    IF hs = <<>> THEN reqHeaders
    ELSE RunHandlers(Tail(hs), RunHandler(Head(hs), reqHeaders))

\* what a request on (client, event) leaves the signing phase with
Injected(hook) == RunHandlers(installed[hook], EmptyDict)

\* live dict objects only: a dict no one references is collected
Collect(hp, keep) == [o \in DOMAIN hp \cap keep |-> hp[o]]

----------------------------------------------------------------------------
(* Sequential caller: whole calls *)

Op(op, who, raised, calls, sent) ==
    [op |-> op, who |-> who, raised |-> raised, calls |-> calls, sent |-> sent]

\* a thread outside register() and unregister() holds no entry
NoLocals == [handler |-> 0, ref_count |-> 0, shared_headers |-> 0, raisedAt |-> 0]

\* no with-block entered, no exception in flight
ScopesIdle ==
    /\ stack = <<>>
    /\ pending = "none"
    /\ call = [op |-> "init", scope |-> "none", injectors |-> <<>>, invoked |-> <<>>,
               given |-> "none", lookup |-> <<>>, operation |-> "none", raised |-> FALSE,
               at |-> 0, during |-> "none", sent |-> <<>>, result |-> "none"]
    /\ peak = 0
    /\ faults = 0

\* the clients of the run exist from its start and every handle is kept
ClientsFixed ==
    /\ ident = [c \in Clients |-> IdOf(c)]
    /\ held = [h \in Handles |-> TRUE]

ThreadsIdle ==
    /\ pc = [t \in Threads |-> "off"]
    /\ local = [t \in Threads |-> NoLocals]
    /\ unregCalls = [o \in ObjIds |-> 0]

Init ==
    /\ handles \in [Handles -> { create_header_injector(c, op, hd) :
                                   c \in Clients, op \in Operations, hd \in HeaderChoices }]
    \* h1 opens a scope on c1's CreateBucket; h2 is on the same client, on the
    \* same or another event; h3 enables snapshots on CreateBucket of either client
    /\ handles["h1"].client = "c1"
    /\ handles["h1"].event_name = EventName("CreateBucket")
    /\ handles["h2"].client = "c1"
    /\ handles["h3"].event_name = EventName("CreateBucket")
    /\ handles["h3"].headers = [n \in {HdrEnable} |-> "true"]
    /\ registry = [k \in {} |-> 0]
    /\ heap = [o \in {} |-> EmptyDict]
    /\ installed = [hk \in Clients \X Events |-> <<>>]
    /\ active = [h \in Handles |-> 0]
    /\ done = [h \in Handles |-> FALSE]
    /\ disciplined = TRUE
    /\ lastOp = Op("init", "none", FALSE, <<>>, EmptyDict)
    /\ ThreadsIdle
    /\ ScopesIdle
    /\ ClientsFixed

\* HeaderInjector.register, lines 48-60
Register(h) ==
    LET key == RegistryKey(h) IN
    /\ held[h]
    /\ active[h] < MaxActive
    /\ active' = [active EXCEPT ![h] = @ + 1]
    /\ done' = [done EXCEPT ![h] = FALSE]
    /\ IF HasEntry(key)
       THEN IF key \notin DOMAIN registry
            THEN \* line 52: KeyError
                 /\ lastOp' = Op("register", h, TRUE, <<>>, EmptyDict)
                 /\ UNCHANGED <<registry, heap, installed>>
            ELSE LET e == registry[key] IN
                 /\ heap' = [heap EXCEPT ![e.shared_headers] =
                                 DictUpdate(@, handles[h].headers)]
                 /\ registry' = RegistryPut(registry, key, Incremented(e))
                 /\ lastOp' = Op("register", h, FALSE, <<>>, EmptyDict)
                 /\ UNCHANGED installed
       ELSE /\ CanAllocate
            /\ LET o == NewObj IN
               /\ heap' = [p \in DOMAIN heap \cup {o} |->
                              IF p = o THEN handles[h].headers ELSE heap[p]]
               /\ installed' = EventsRegister(installed, HookOf(h), o)
               /\ registry' = RegistryPut(registry, key,
                      [handler |-> o, ref_count |-> 1, shared_headers |-> o])
               /\ lastOp' = Op("register", h, FALSE,
                      <<[fn |-> "register", hook |-> HookOf(h), handler |-> o]>>, EmptyDict)
    /\ UNCHANGED <<handles, disciplined, pc, local, unregCalls, ScopeVars, LifeVars>>

\* HeaderInjector.unregister, lines 62-75
Unregister(h) ==
    LET key == RegistryKey(h) IN
    /\ held[h]
    /\ active' = [active EXCEPT ![h] = IF @ > 0 THEN @ - 1 ELSE 0]
    /\ done' = [done EXCEPT ![h] = (active[h] = 1)]
    /\ disciplined' = (disciplined /\ active[h] > 0)
    /\ IF NotRegistered(key)
       THEN /\ lastOp' = Op("unregister", h, FALSE, <<>>, EmptyDict)
            /\ UNCHANGED <<registry, heap, installed>>
       ELSE IF key \notin DOMAIN registry
       THEN \* line 67: KeyError
            /\ lastOp' = Op("unregister", h, TRUE, <<>>, EmptyDict)
            /\ UNCHANGED <<registry, heap, installed>>
       ELSE LET e == registry[key] IN
            IF StillNested(e.ref_count)
            THEN /\ registry' = RegistryPut(registry, key, Decremented(e))
                 /\ lastOp' = Op("unregister", h, FALSE, <<>>, EmptyDict)
                 /\ UNCHANGED <<heap, installed>>
            ELSE /\ installed' = EventsUnregister(installed, HookOf(h), e.handler)
                 /\ registry' = RegistryDel(registry, key)
                 /\ heap' = Collect(heap, Referenced(registry', installed', local))
                 /\ lastOp' = Op("unregister", h, FALSE,
                        <<[fn |-> "unregister", hook |-> HookOf(h), handler |-> e.handler]>>,
                        EmptyDict)
    /\ UNCHANGED <<handles, pc, local, unregCalls, ScopeVars, LifeVars>>

\* the client signs a request of an operation: every handler of the event runs
Request(client, event) ==
    /\ lastOp' = Op("request", <<client, event>>, FALSE, <<>>, Injected(<<client, event>>))
    /\ UNCHANGED <<handles, registry, heap, installed, active, done, disciplined,
                   pc, local, unregCalls, ScopeVars, LifeVars>>

Next ==
    \/ \E h \in Handles : Register(h)
    \/ \E h \in Handles : Unregister(h)
    \/ \E c \in Clients, e \in Events : Request(c, e)

Spec == Init /\ [][Next]_vars

----------------------------------------------------------------------------
(* Threads: register() and unregister() line by line.  The interpreter may  *)
(* switch threads between any two lines; lines that touch only locals are   *)
(* taken together with the line before them.  Each thread owns one handle,  *)
(* all on one registry key, and runs register() and then unregister().      *)

HandleOfThread(t) ==
    CASE t = "t1" -> "h1"
      [] t = "t2" -> "h2"
      [] OTHER -> "h3"

InitThreads ==
    /\ handles = [h \in Handles |->
           create_header_injector("c1", "CreateBucket",
               CASE h = "h1" -> [n \in {HdrEnable} |-> "true"]
                 [] h = "h2" -> [n \in {HdrForkSource} |-> "bucket-a"]
                 [] OTHER -> [n \in {HdrForkSource, HdrForkSnapshot} |->
                                 IF n = HdrForkSource THEN "bucket-b" ELSE "v1"])]
    /\ registry = [k \in {} |-> 0]
    /\ heap = [o \in {} |-> EmptyDict]
    /\ installed = [hk \in Clients \X Events |-> <<>>]
    /\ active = [h \in Handles |-> 0]
    /\ done = [h \in Handles |-> FALSE]
    /\ disciplined = TRUE
    /\ lastOp = Op("init", "none", FALSE, <<>>, EmptyDict)
    /\ pc = [t \in Threads |-> "r50"]
    /\ local = [t \in Threads |-> NoLocals]
    /\ unregCalls = [o \in ObjIds |-> 0]
    /\ ScopesIdle
    /\ ClientsFixed

History == <<handles, active, done, disciplined, lastOp, ScopeVars, LifeVars>>

\* a step of thread t: its next line, its locals, and the shared state it leaves
Goto(t, line, loc, reg, inst, hp) ==
    /\ pc' = [pc EXCEPT ![t] = line]
    /\ local' = [local EXCEPT ![t] = loc]
    /\ registry' = reg
    /\ installed' = inst
    /\ heap' = Collect(hp, Referenced(registry', installed', local'))

Raise(t, line) ==
    /\ Goto(t, "raised", [NoLocals EXCEPT !.raisedAt = line], registry, installed, heap)
    /\ UNCHANGED unregCalls

\* line 50, and on the else branch lines 57-58
RegisterCheck(t) ==
    LET h == HandleOfThread(t) IN
    /\ pc[t] = "r50"
    /\ IF HasEntry(RegistryKey(h))
       THEN /\ Goto(t, "r52", local[t], registry, installed, heap)
            /\ UNCHANGED unregCalls
       ELSE /\ CanAllocate
            /\ LET o == NewObj IN
               /\ Goto(t, "r59",
                       [handler |-> o, ref_count |-> 0, shared_headers |-> o, raisedAt |-> 0],
                       registry, installed,
                       [p \in DOMAIN heap \cup {o} |->
                           IF p = o THEN handles[h].headers ELSE heap[p]])
               /\ unregCalls' = [unregCalls EXCEPT ![o] = 0]
    /\ UNCHANGED History

\* line 52
RegisterRead(t) ==
    LET key == RegistryKey(HandleOfThread(t)) IN
    /\ pc[t] = "r52"
    /\ IF key \notin DOMAIN registry
       THEN Raise(t, 52)
       ELSE /\ Goto(t, "r53",
                    [handler |-> registry[key].handler,
                     ref_count |-> registry[key].ref_count,
                     shared_headers |-> registry[key].shared_headers,
                     raisedAt |-> 0],
                    registry, installed, heap)
            /\ UNCHANGED unregCalls
    /\ UNCHANGED History

\* line 53
RegisterUpdate(t) ==
    /\ pc[t] = "r53"
    /\ Goto(t, "r54", local[t], registry, installed,
            [heap EXCEPT ![local[t].shared_headers] =
                DictUpdate(@, handles[HandleOfThread(t)].headers)])
    /\ UNCHANGED <<unregCalls, History>>

\* line 54, and the return
RegisterIncrement(t) ==
    /\ pc[t] = "r54"
    /\ Goto(t, "u64", NoLocals,
            RegistryPut(registry, RegistryKey(HandleOfThread(t)), Incremented(local[t])),
            installed, heap)
    /\ UNCHANGED <<unregCalls, History>>

\* line 59
RegisterInstall(t) ==
    /\ pc[t] = "r59"
    /\ Goto(t, "r60", local[t], registry,
            EventsRegister(installed, HookOf(HandleOfThread(t)), local[t].handler), heap)
    /\ UNCHANGED <<unregCalls, History>>

\* line 60, and the return
RegisterCreate(t) ==
    /\ pc[t] = "r60"
    /\ Goto(t, "u64", NoLocals,
            RegistryPut(registry, RegistryKey(HandleOfThread(t)),
                [handler |-> local[t].handler, ref_count |-> 1,
                 shared_headers |-> local[t].shared_headers]),
            installed, heap)
    /\ UNCHANGED <<unregCalls, History>>

\* lines 64-65
UnregisterCheck(t) ==
    /\ pc[t] = "u64"
    /\ Goto(t, IF NotRegistered(RegistryKey(HandleOfThread(t))) THEN "done" ELSE "u67",
            local[t], registry, installed, heap)
    /\ UNCHANGED <<unregCalls, History>>

\* lines 67-69
UnregisterRead(t) ==
    LET key == RegistryKey(HandleOfThread(t)) IN
    /\ pc[t] = "u67"
    /\ IF key \notin DOMAIN registry
       THEN Raise(t, 67)
       ELSE /\ Goto(t, IF StillNested(registry[key].ref_count) THEN "u71" ELSE "u74",
                    [handler |-> registry[key].handler,
                     ref_count |-> registry[key].ref_count,
                     shared_headers |-> registry[key].shared_headers,
                     raisedAt |-> 0],
                    registry, installed, heap)
            /\ UNCHANGED unregCalls
    /\ UNCHANGED History

\* line 71, and the return
UnregisterDecrement(t) ==
    /\ pc[t] = "u71"
    /\ Goto(t, "done", NoLocals,
            RegistryPut(registry, RegistryKey(HandleOfThread(t)), Decremented(local[t])),
            installed, heap)
    /\ UNCHANGED <<unregCalls, History>>

\* line 74
UnregisterRemove(t) ==
    /\ pc[t] = "u74"
    /\ Goto(t, "u75", local[t], registry,
            EventsUnregister(installed, HookOf(HandleOfThread(t)), local[t].handler), heap)
    /\ unregCalls' = [unregCalls EXCEPT ![local[t].handler] = @ + 1]
    /\ UNCHANGED History

\* line 75, and the return
UnregisterDelete(t) ==
    LET key == RegistryKey(HandleOfThread(t)) IN
    /\ pc[t] = "u75"
    /\ IF key \notin DOMAIN registry
       THEN Raise(t, 75)
       ELSE /\ Goto(t, "done", NoLocals, RegistryDel(registry, key), installed, heap)
            /\ UNCHANGED unregCalls
    /\ UNCHANGED History

NextThreads ==
    \/ \E t \in Threads : RegisterCheck(t)
    \/ \E t \in Threads : RegisterRead(t)
    \/ \E t \in Threads : RegisterUpdate(t)
    \/ \E t \in Threads : RegisterIncrement(t)
    \/ \E t \in Threads : RegisterInstall(t)
    \/ \E t \in Threads : RegisterCreate(t)
    \/ \E t \in Threads : UnregisterCheck(t)
    \/ \E t \in Threads : UnregisterRead(t)
    \/ \E t \in Threads : UnregisterDecrement(t)
    \/ \E t \in Threads : UnregisterRemove(t)
    \/ \E t \in Threads : UnregisterDelete(t)

SpecThreads == InitThreads /\ [][NextThreads]_vars

----------------------------------------------------------------------------
(* Scopes: the context managers of context_managers.py over the registry.   *)
(* register() and unregister() are written here as functions of the world   *)
(* (registry, dict contents, client hooks) so that a scope's __enter__ and  *)
(* __exit__ loops, which call them handle after handle, are one step.       *)

MaxDepth == 2

MaxFaults == 1

\* an optional argument left at its default
None == "None"

\* `if snapshot_version:` / `if snapshot_name:`: None and "" are both false
TruthyNotNone(x) == x # None

Truthy(x) == x # None /\ x # ""

HdrSnapshot == "X-Tigris-Snapshot"

HdrSnapshotVersion == "X-Tigris-Snapshot-Version"

ScopeClients == {"c1"}

\* the (bucket, snapshot_version) arguments callers construct scopes with
ScopeArgs == { <<"bucket-a", None>>, <<"bucket-a", "v1">>, <<"bucket-b", "v2">> }

\* the operations TigrisSnapshot puts the version header on (lines 94-99)
ReadOperations == <<"GetObject", "ListObjectsV2", "HeadObject", "ListObjects">>

AllOperations ==
    {"CreateBucket", "ListBuckets"} \cup { ReadOperations[i] : i \in 1 .. Len(ReadOperations) }

AllEvents == { EventName(op) : op \in AllOperations }

\* one injector per operation, each with its own copy of the headers
create_multi_operation_injector(client, operations, headers) ==
    [i \in 1 .. Len(operations) |-> create_header_injector(client, operations[i], headers)]

\* TigrisSnapshotEnabled.__init__
TigrisSnapshotEnabled(s3_client) ==
    [kind |-> "TigrisSnapshotEnabled", client |-> s3_client,
     bucket |-> None, version |-> None,
     injectors |-> << create_header_injector(s3_client, "CreateBucket",
                          [n \in {HdrEnable} |-> "true"]) >>]

\* TigrisSnapshot.__init__
TigrisSnapshotAlwaysPinned(s3_client, bucket_name, snapshot_version) ==
    [kind |-> "TigrisSnapshot", client |-> s3_client,
     bucket |-> bucket_name, version |-> snapshot_version,
     injectors |->
        << create_header_injector(s3_client, "ListBuckets",
               [n \in {HdrSnapshot} |-> bucket_name]) >>
        \o create_multi_operation_injector(s3_client, ReadOperations,
               [n \in {HdrSnapshotVersion} |-> snapshot_version])]

TigrisSnapshot(s3_client, bucket_name, snapshot_version) ==
    [kind |-> "TigrisSnapshot", client |-> s3_client,
     bucket |-> bucket_name, version |-> snapshot_version,
     injectors |->
        << create_header_injector(s3_client, "ListBuckets",
               [n \in {HdrSnapshot} |-> bucket_name]) >>
        \o (IF Truthy(snapshot_version)
            THEN create_multi_operation_injector(s3_client, ReadOperations,
                     [n \in {HdrSnapshotVersion} |-> snapshot_version])
            ELSE <<>>)]

\* TigrisFork.__init__
TigrisForkSourceOnly(s3_client, source_bucket, snapshot_version) ==
    [kind |-> "TigrisFork", client |-> s3_client,
     bucket |-> source_bucket, version |-> snapshot_version,
     injectors |->
        << create_header_injector(s3_client, "CreateBucket",
               [n \in {HdrForkSource} |-> source_bucket]) >>]

TigrisFork(s3_client, source_bucket, snapshot_version) ==
    [kind |-> "TigrisFork", client |-> s3_client,
     bucket |-> source_bucket, version |-> snapshot_version,
     injectors |->
        << create_header_injector(s3_client, "CreateBucket",
               IF Truthy(snapshot_version)
               THEN [n \in {HdrForkSource, HdrForkSnapshot} |->
                        IF n = HdrForkSource THEN source_bucket ELSE snapshot_version]
               ELSE [n \in {HdrForkSource} |-> source_bucket]) >>]

\* the scope objects a caller may construct
Scopes ==
    { TigrisSnapshotEnabled(c) : c \in ScopeClients }
    \cup { TigrisSnapshot(c, a[1], a[2]) : c \in ScopeClients, a \in ScopeArgs }
    \cup { TigrisFork(c, a[1], a[2]) : c \in ScopeClients, a \in ScopeArgs }

\* self._registry_key of an injector
InjKey(inj) == <<IdOf(inj.client), inj.event_name>>

InjHook(inj) == <<inj.client, inj.event_name>>

World == [registry |-> registry, heap |-> heap, installed |-> installed]

LiveIn(w) == Referenced(w.registry, w.installed, <<>>)

\* a new object gets the lowest number that no live object has
FreshObj(w) ==
    LET live == LiveIn(w) IN
    CHOOSE o \in ObjIds : o \notin live /\ \A p \in ObjIds : p < o => p \in live

\* register(), lines 56-60: the key has no entry.  hookRaises: the client's
\* events.register raises, so line 60 is never reached
RegisterFirstEntryBeforeCall(w, inj, hookRaises) ==
    LET o == FreshObj(w) IN
    [w |-> [registry |-> RegistryPut(w.registry, InjKey(inj),
                            [handler |-> o, ref_count |-> 1, shared_headers |-> o]),
            heap |-> [p \in DOMAIN w.heap \cup {o} |->
                         IF p = o THEN inj.headers ELSE w.heap[p]],
            installed |-> IF hookRaises THEN w.installed
                          ELSE EventsRegister(w.installed, InjHook(inj), o)],
     raised |-> hookRaises]

RegisterFirst(w, inj, hookRaises) ==
    IF hookRaises
    THEN [w |-> w, raised |-> TRUE]
    ELSE LET o == FreshObj(w) IN
         [w |-> [registry |-> RegistryPut(w.registry, InjKey(inj),
                                 [handler |-> o, ref_count |-> 1, shared_headers |-> o]),
                 heap |-> [p \in DOMAIN w.heap \cup {o} |->
                              IF p = o THEN inj.headers ELSE w.heap[p]],
                 installed |-> EventsRegister(w.installed, InjHook(inj), o)],
          raised |-> FALSE]

\* register(), lines 51-54: the key has an entry
RegisterNestedNoMerge(w, inj) ==
    LET e == w.registry[InjKey(inj)] IN
    [w |-> [registry |-> RegistryPut(w.registry, InjKey(inj), Incremented(e)),
            heap |-> w.heap,
            installed |-> w.installed],
     raised |-> FALSE]

RegisterNested(w, inj) ==
    LET e == w.registry[InjKey(inj)] IN
    [w |-> [registry |-> RegistryPut(w.registry, InjKey(inj), Incremented(e)),
            heap |-> [w.heap EXCEPT ![e.shared_headers] = DictUpdate(@, inj.headers)],
            installed |-> w.installed],
     raised |-> FALSE]

\* HeaderInjector.register, lines 48-60
RegisterIn(w, inj, hookRaises) ==
    IF InjKey(inj) \in DOMAIN w.registry
    THEN RegisterNested(w, inj)
    ELSE RegisterFirst(w, inj, hookRaises)

\* unregister(), lines 72-75: the last reference.  hookRaises: the client's
\* events.unregister raises, so line 75 is never reached
UnregisterLast(w, inj, hookRaises) ==
    IF hookRaises
    THEN [w |-> w, raised |-> TRUE]
    ELSE LET e    == w.registry[InjKey(inj)]
             inst == EventsUnregister(w.installed, InjHook(inj), e.handler)
             reg  == RegistryDel(w.registry, InjKey(inj))
         IN  [w |-> [registry |-> reg,
                     heap |-> Collect(w.heap, Referenced(reg, inst, <<>>)),
                     installed |-> inst],
              raised |-> FALSE]

\* unregister(), lines 69-71: other references remain
UnregisterNested(w, inj) ==
    [w |-> [w EXCEPT !.registry = RegistryPut(@, InjKey(inj), Decremented(@[InjKey(inj)]))],
     raised |-> FALSE]

\* HeaderInjector.unregister, lines 62-75
UnregisterIn(w, inj, hookRaises) ==
    IF InjKey(inj) \notin DOMAIN w.registry
    THEN [w |-> w, raised |-> FALSE]
    ELSE IF StillNested(w.registry[InjKey(inj)].ref_count)
    THEN UnregisterNested(w, inj)
    ELSE UnregisterLast(w, inj, hookRaises)

\* `for injector in self._injectors: injector.register()` from the i-th
\* injector on; the hook call of injector failAt raises (0: none does).
\* An exception leaves the loop: at is the injector whose call raised
RECURSIVE EnterFrom(_, _, _, _)
EnterFrom(w, injs, i, failAt) ==
    IF i > Len(injs)
    THEN [w |-> w, raised |-> FALSE, at |-> 0]
    ELSE LET r == RegisterIn(w, injs[i], i = failAt) IN
         IF r.raised
         THEN [w |-> r.w, raised |-> TRUE, at |-> i]
         ELSE EnterFrom(r.w, injs, i + 1, failAt)

\* `for injector in self._injectors: injector.unregister()`
RECURSIVE ExitFrom(_, _, _, _)
ExitFrom(w, injs, i, failAt) ==
    IF i > Len(injs)
    THEN [w |-> w, raised |-> FALSE, at |-> 0]
    ELSE LET r == UnregisterIn(w, injs[i], i = failAt) IN
         IF r.raised
         THEN [w |-> r.w, raised |-> TRUE, at |-> i]
         ELSE ExitFrom(r.w, injs, i + 1, failAt)

\* __enter__ of the three context managers
ScopeEnterAllOrNothing(w, scope, failAt) ==
    LET r == EnterFrom(w, scope.injectors, 1, failAt) IN
    IF r.raised THEN [w |-> w, raised |-> TRUE, at |-> r.at] ELSE r

ScopeEnter(w, scope, failAt) == EnterFrom(w, scope.injectors, 1, failAt)

\* __exit__ of the three context managers
ScopeExitFirstOnly(w, scope, failAt) == ExitFrom(w, <<scope.injectors[1]>>, 1, failAt)

ScopeExit(w, scope, failAt) == ExitFrom(w, scope.injectors, 1, failAt)

\* every injector of the list can create an entry of its own
Room(w, injs) ==
    Cardinality(LiveIn(w))
      + Cardinality({ InjKey(injs[i]) : i \in 1 .. Len(injs) } \ DOMAIN w.registry)
    <= MaxObjects

\* a step that is not the entry or exit of a scope
NoScope == [kind |-> "none", injectors |-> <<>>]

Did(op, scope, operation, raised, at, during, sent, result) ==
    [op |-> op, scope |-> scope.kind, injectors |-> scope.injectors, invoked |-> <<>>,
     given |-> "none", lookup |-> <<>>,
     operation |-> operation, raised |-> raised,
     at |-> at, during |-> during, sent |-> sent, result |-> result]

\* what the storage service answers to one request
Outcomes ==
    { [raised |-> FALSE, value |-> "response"],
      [raised |-> TRUE, value |-> "ClientError"] }

SetWorld(w) ==
    /\ registry' = w.registry
    /\ heap' = w.heap
    /\ installed' = w.installed

HandleVars == <<handles, active, done, disciplined, lastOp, pc, local, unregCalls,
                ident, held>>

InitScopes ==
    /\ handles = [h \in Handles |->
           create_header_injector("c1", "CreateBucket", [n \in {HdrEnable} |-> "true"])]
    /\ registry = [k \in {} |-> 0]
    /\ heap = [o \in {} |-> EmptyDict]
    /\ installed = [hk \in Clients \X AllEvents |-> <<>>]
    /\ active = [h \in Handles |-> 0]
    /\ done = [h \in Handles |-> FALSE]
    /\ disciplined = TRUE
    /\ lastOp = Op("init", "none", FALSE, <<>>, EmptyDict)
    /\ ThreadsIdle
    /\ ScopesIdle
    /\ ClientsFixed

\* `with scope:` reaches the scope's __enter__.  When __enter__ raises, the
\* with statement never runs the block nor __exit__
Enter(scope, failAt) ==
    LET r == ScopeEnter(World, scope, failAt) IN
    /\ pending = "none"
    /\ Len(stack) < MaxDepth
    /\ Room(World, scope.injectors)
    /\ failAt <= Len(scope.injectors)
    /\ failAt # 0 => faults < MaxFaults
    /\ SetWorld(r.w)
    /\ call' = Did("enter", scope, "none", r.raised, r.at, "none", <<>>, "none")
    /\ IF r.raised
       THEN /\ pending' = "HookError"
            /\ faults' = faults + 1
            /\ UNCHANGED <<stack, peak>>
       ELSE /\ stack' = Append(stack, [scope |-> scope,
                                       before |-> [registry |-> registry, heap |-> heap]])
            /\ peak' = IF Len(stack') > peak THEN Len(stack') ELSE peak
            /\ UNCHANGED <<pending, faults>>
    /\ UNCHANGED HandleVars

\* the innermost with-block is left, by its end or by an exception in
\* flight: __exit__ runs and returns None, so the exception goes on
Exit(failAt) ==
    /\ stack # <<>>
    /\ failAt <= Len(stack[Len(stack)].scope.injectors)
    /\ failAt # 0 => faults < MaxFaults
    /\ LET scope == stack[Len(stack)].scope
           r     == ScopeExit(World, scope, failAt)
       IN  /\ SetWorld(r.w)
           /\ call' = Did("exit", scope, "none", r.raised, r.at, pending, <<>>, "none")
           /\ pending' = IF r.raised THEN "HookError" ELSE pending
           /\ faults' = IF r.raised THEN faults + 1 ELSE faults
    /\ stack' = SubSeq(stack, 1, Len(stack) - 1)
    /\ UNCHANGED peak
    /\ UNCHANGED HandleVars

\* a storage operation issued by the caller at its current point
StorageOp(client, operation, outcome) ==
    /\ pending = "none"
    /\ call' = Did("request", NoScope, operation, outcome.raised, 0, "none",
                   Injected(<<client, EventName(operation)>>), outcome.value)
    /\ pending' = IF outcome.raised THEN outcome.value ELSE "none"
    /\ UNCHANGED <<registry, heap, installed, stack, peak, faults>>
    /\ UNCHANGED HandleVars

\* an except clause around the point the exception has reached
Catch ==
    /\ pending # "none"
    /\ pending' = "none"
    /\ call' = Did("catch", NoScope, "none", FALSE, 0, pending, <<>>, "none")
    /\ UNCHANGED <<registry, heap, installed, stack, peak, faults>>
    /\ UNCHANGED HandleVars

\* the handlers of a hook run on a request in world w
RECURSIVE RunHandlersIn(_, _, _)
RunHandlersIn(hp, hs, reqHeaders) ==
    IF hs = <<>> THEN reqHeaders
    ELSE RunHandlersIn(hp, Tail(hs), DictUpdate(reqHeaders, hp[Head(hs)]))

InjectedIn(w, hook) == RunHandlersIn(w.heap, w.installed[hook], EmptyDict)

Decorators == {"snapshot_enabled", "with_snapshot", "forked_from"}

\* the scope a decorator's wrapper constructs; forked_from is given
\* snapshot_version here, never snapshot_name
DecoratorScope(decorator, s3_client, a) ==
    CASE decorator = "snapshot_enabled" -> TigrisSnapshotEnabled(s3_client)
      [] decorator = "with_snapshot" -> TigrisSnapshot(s3_client, a[1], a[2])
      [] OTHER -> TigrisFork(s3_client, a[1], a[2])

\* wrapper(s3_client, *args, **kwargs) of the three decorators:
\* `with Scope(s3_client, ...): return func(s3_client, *args, **kwargs)`.
\* The wrapped function issues the storage operation named by its argument
\* and returns what it answers or lets its exception through
Decorated(decorator, s3_client, a, args, outcome) ==
    LET scope   == DecoratorScope(decorator, s3_client, a)
        entered == ScopeEnter(World, scope, 0)
        sent    == InjectedIn(entered.w, <<s3_client, EventName(args)>>)
        exited  == ScopeExit(entered.w, scope, 0)
    IN  /\ pending = "none"
        /\ Len(stack) < MaxDepth
        /\ Room(World, scope.injectors)
        /\ SetWorld(exited.w)
        /\ call' = [Did("decorated", scope, args, outcome.raised, 0, "none", sent,
                        outcome.value)
                    EXCEPT !.invoked = <<[client |-> s3_client, args |-> args,
                                          outcome |-> outcome]>>]
        /\ pending' = IF outcome.raised THEN outcome.value ELSE "none"
        /\ UNCHANGED <<stack, peak, faults>>
        /\ UNCHANGED HandleVars

NextScopes ==
    \/ \E s \in Scopes : Enter(s, 0)
    \/ Exit(0)
    \/ \E c \in ScopeClients, op \in AllOperations, out \in Outcomes : StorageOp(c, op, out)
    \/ Catch

SpecScopes == InitScopes /\ [][NextScopes]_vars

\* the longest list of injectors a scope owns
MaxInjectors == 1 + Len(ReadOperations)

\* one scope of each kind
ScopeSamples ==
    { TigrisSnapshotEnabled("c1"), TigrisSnapshot("c1", "bucket-a", "v1"),
      TigrisFork("c1", "bucket-b", "v2") }

\* a helper that takes no source bucket and no snapshot version
NoArgs == <<None, None>>

Helpers ==
    {"create_snapshot_bucket", "create_snapshot", "list_snapshots", "create_fork",
     "get_object_from_snapshot", "list_objects_from_snapshot", "head_object_from_snapshot"}

\* the snapshot_name arguments callers pass to create_snapshot
SnapshotNames == {None, "", "backup-1"}

\* create_snapshot, lines 58-60
SnapshotHeaderValueUnnamed(snapshot_name) == "true"

SnapshotHeaderValue(snapshot_name) ==
    IF Truthy(snapshot_name) THEN "true; name=" \o snapshot_name ELSE "true"

\* the scope a helper opens: a context manager, or for create_snapshot one
\* injector registered and unregistered in try/finally
HelperScope(helper, s3_client, a, snapshot_name) ==
    CASE helper = "create_snapshot_bucket" -> TigrisSnapshotEnabled(s3_client)
      [] helper = "create_snapshot" ->
            [kind |-> "create_snapshot", client |-> s3_client,
             bucket |-> None, version |-> None,
             injectors |-> << create_header_injector(s3_client, "CreateBucket",
                 [n \in {HdrSnapshot} |-> SnapshotHeaderValue(snapshot_name)]) >>]
      [] helper = "list_snapshots" -> TigrisSnapshot(s3_client, a[1], None)
      [] helper = "create_fork" -> TigrisFork(s3_client, a[1], a[2])
      [] OTHER -> TigrisSnapshot(s3_client, a[1], a[2])

\* the storage operation a helper delegates to
HelperOperation(helper) ==
    CASE helper \in {"create_snapshot_bucket", "create_snapshot", "create_fork"} -> "CreateBucket"
      [] helper = "list_snapshots" -> "ListBuckets"
      [] helper = "get_object_from_snapshot" -> "GetObject"
      [] helper = "list_objects_from_snapshot" -> "ListObjectsV2"
      [] OTHER -> "HeadObject"

\* a helper of helpers.py: scope opened, `return s3_client.<operation>(...)`,
\* scope closed by the with statement or the finally clause
Helper(helper, s3_client, a, snapshot_name, outcome) ==
    LET scope   == HelperScope(helper, s3_client, a, snapshot_name)
        entered == ScopeEnter(World, scope, 0)
        sent    == InjectedIn(entered.w, <<s3_client, EventName(HelperOperation(helper))>>)
        exited  == ScopeExit(entered.w, scope, 0)
    IN  /\ pending = "none"
        /\ Len(stack) < MaxDepth
        /\ Room(World, scope.injectors)
        /\ SetWorld(exited.w)
        /\ call' = [Did(helper, scope, HelperOperation(helper), outcome.raised, 0, "none",
                        sent, outcome.value)
                    EXCEPT !.invoked = <<[client |-> s3_client,
                                          args |-> HelperOperation(helper),
                                          outcome |-> outcome]>>,
                           !.given = snapshot_name]
        /\ pending' = IF outcome.raised THEN outcome.value ELSE "none"
        /\ UNCHANGED <<stack, peak, faults>>
        /\ UNCHANGED HandleVars

\* the same callers on a client whose event system may raise: at most
\* MaxFaults calls of events.register / events.unregister raise
NextFaults ==
    \/ \E s \in ScopeSamples, failAt \in 0 .. MaxInjectors : Enter(s, failAt)
    \/ \E failAt \in 0 .. MaxInjectors : Exit(failAt)
    \/ \E c \in ScopeClients, op \in Operations, out \in Outcomes : StorageOp(c, op, out)
    \/ Catch

SpecFaults == InitScopes /\ [][NextFaults]_vars

\* the scopes a call is made inside of: one holding the CreateBucket key,
\* one holding the ListBuckets key and the keys of the read operations
Enclosing == { TigrisSnapshotEnabled("c1"), TigrisSnapshot("c1", "bucket-a", "v1") }

\* callers of decorated functions and helpers, at top level or inside
\* with-blocks; the with-block inside the wrapper or helper is the innermost
NextCalls ==
    \/ \E s \in Enclosing : Len(stack) + 1 < MaxDepth /\ Enter(s, 0)
    \/ Exit(0)
    \/ Catch
    \/ \E c \in ScopeClients, op \in Operations, out \in Outcomes :
          Decorated("snapshot_enabled", c, NoArgs, op, out)
    \/ \E d \in Decorators \ {"snapshot_enabled"}, c \in ScopeClients, a \in ScopeArgs,
          op \in Operations, out \in Outcomes : Decorated(d, c, a, op, out)
    \/ \E c \in ScopeClients, out \in Outcomes :
          Helper("create_snapshot_bucket", c, NoArgs, None, out)
    \/ \E c \in ScopeClients, n \in SnapshotNames, out \in Outcomes :
          Helper("create_snapshot", c, NoArgs, n, out)
    \/ \E h \in Helpers \ {"create_snapshot_bucket", "create_snapshot"},
          c \in ScopeClients, a \in ScopeArgs, out \in Outcomes : Helper(h, c, a, None, out)

SpecCalls == InitScopes /\ [][NextCalls]_vars

----------------------------------------------------------------------------
(* Forks by snapshot name, scope construction and response parsing: the     *)
(* calls of decorators.py and helpers.py that validate or convert their     *)
(* arguments before, or instead of, opening a scope.                        *)

BothGivenError == "ValueError: Cannot specify both snapshot_version and snapshot_name"

NotFoundError == "ValueError: Snapshot with name not found in bucket"

\* the buckets forks are made from
ForkSources == {"bucket-a", "bucket-b"}

\* the snapshot_version arguments callers pass to the fork calls
ForkVersions == {None, "", "abc123"}

\* the snapshot_name arguments callers pass to the fork calls
ForkNames == {None, "", "v2", "missing"}

\* the snapshots the service holds of a bucket, oldest first
SnapshotsOf(bucket) ==
    IF bucket = "bucket-a"
    THEN << [name |-> "v1", version |-> "abc111"] >>
    ELSE << [name |-> "v1", version |-> "abc122"],
            [name |-> "v2", version |-> "abc123"],
            [name |-> "v3", version |-> "abc124"] >>

\* the version of the snapshot of that name in a bucket's snapshot list, the
\* most recent one when several carry the name; None when none does
get_snapshot_version_by_name(snapshots, snapshot_name) ==
    LET hits == { i \in 1 .. Len(snapshots) : snapshots[i].name = snapshot_name } IN
    IF hits = {} THEN None
    ELSE snapshots[CHOOSE i \in hits : \A j \in hits : j <= i].version

\* `if snapshot_version and snapshot_name:` (forked_from, line 116)
BothGivenNever(snapshot_version, snapshot_name) == FALSE

BothGiven(snapshot_version, snapshot_name) ==
    Truthy(snapshot_version) /\ Truthy(snapshot_name)

\* @forked_from(source_bucket, snapshot_version, snapshot_name) applied to a
\* function: the arguments are validated, then the wrapper is made
ForkedFrom(source_bucket, snapshot_version, snapshot_name) ==
    LET raised == BothGiven(snapshot_version, snapshot_name) IN
    /\ pending = "none"
    /\ call' = [Did("forked_from", NoScope, "none", raised, 0, "none", <<>>,
                    IF raised THEN BothGivenError ELSE "wrapper")
                EXCEPT !.given = [source |-> source_bucket, version |-> snapshot_version,
                                  name |-> snapshot_name]]
    /\ pending' = IF raised THEN BothGivenError ELSE "none"
    /\ UNCHANGED <<registry, heap, installed, stack, peak, faults>>
    /\ UNCHANGED HandleVars

\* the wrapper made by the last step is called, lines 119-139: the name is
\* resolved through the source bucket's snapshot list (a ListBuckets request
\* inside a TigrisSnapshot scope on the source bucket), then
\* `with TigrisFork(s3_client, source_bucket, resolved_version):
\*      return func(s3_client, *args, **kwargs)`
ForkedFromCall(s3_client, args, listing, outcome) ==
    LET d        == call.given
        byName   == Truthy(d.name)
        lscope   == TigrisSnapshot(s3_client, d.source, None)
        lentered == ScopeEnter(World, lscope, 0)
        lsent    == InjectedIn(lentered.w, <<s3_client, EventName("ListBuckets")>>)
        lexited  == ScopeExit(lentered.w, lscope, 0)
        w        == IF byName THEN lexited.w ELSE World
        lookup   == IF byName
                    THEN <<[operation |-> "ListBuckets", sent |-> lsent, outcome |-> listing]>>
                    ELSE <<>>
        resolved_version ==
            IF byName THEN get_snapshot_version_by_name(SnapshotsOf(d.source), d.name)
            ELSE d.version
        scope    == TigrisFork(s3_client, d.source, resolved_version)
        entered  == ScopeEnter(w, scope, 0)
        sent     == InjectedIn(entered.w, <<s3_client, EventName(args)>>)
        exited   == ScopeExit(entered.w, scope, 0)
    IN  /\ pending = "none"
        /\ call.op = "forked_from"
        /\ ~call.raised
        /\ Len(stack) < MaxDepth
        /\ Room(World, lscope.injectors)
        /\ Room(World, scope.injectors)
        /\ ~byName => listing = [raised |-> FALSE, value |-> "response"]
        /\ IF byName /\ listing.raised
           THEN \* the listing raises inside get_snapshot_version_by_name
                /\ SetWorld(w)
                /\ call' = [Did("forked_from_call", NoScope, "none", TRUE, 0, "none", <<>>,
                                listing.value)
                            EXCEPT !.given = d, !.lookup = lookup]
                /\ pending' = listing.value
           ELSE IF byName /\ resolved_version = None
           THEN \* lines 131-134
                /\ SetWorld(w)
                /\ call' = [Did("forked_from_call", NoScope, "none", TRUE, 0, "none", <<>>,
                                NotFoundError)
                            EXCEPT !.given = d, !.lookup = lookup]
                /\ pending' = NotFoundError
           ELSE \* lines 136-137
                /\ SetWorld(exited.w)
                /\ call' = [Did("forked_from_call", scope, args, outcome.raised, 0, "none",
                                sent, outcome.value)
                            EXCEPT !.given = d, !.lookup = lookup,
                                   !.invoked = <<[client |-> s3_client, args |-> args,
                                                  outcome |-> outcome]>>]
                /\ pending' = IF outcome.raised THEN outcome.value ELSE "none"
        /\ UNCHANGED <<stack, peak, faults>>
        /\ UNCHANGED HandleVars

\* the parameters of helpers.create_fork
CreateForkParams == {"s3_client", "new_bucket_name", "source_bucket", "snapshot_version"}

\* the keyword arguments callers pass to create_fork after its three
\* positional ones
ForkKeywords ==
    { [k \in {} |-> None] }
    \cup { [k \in {"snapshot_version"} |-> v] : v \in ForkVersions }
    \cup { [k \in {"snapshot_name"} |-> n] : n \in ForkNames }
    \cup { [k \in {"snapshot_version", "snapshot_name"} |->
              IF k = "snapshot_version" THEN v ELSE n] : v \in ForkVersions, n \in ForkNames }

\* create_fork(s3_client, new_bucket_name, source_bucket, **kw): a keyword
\* that is no parameter of the function raises TypeError before the body
\* runs; the body is
\* `with TigrisFork(s3_client, source_bucket, snapshot_version):
\*      return s3_client.create_bucket(Bucket=new_bucket_name)`
CreateFork(s3_client, source_bucket, kw, outcome) ==
    LET bound   == DOMAIN kw \subseteq CreateForkParams
        snapshot_version ==
            IF "snapshot_version" \in DOMAIN kw THEN kw["snapshot_version"] ELSE None
        scope   == TigrisFork(s3_client, source_bucket, snapshot_version)
        entered == ScopeEnter(World, scope, 0)
        sent    == InjectedIn(entered.w, <<s3_client, EventName("CreateBucket")>>)
        exited  == ScopeExit(entered.w, scope, 0)
    IN  /\ pending = "none"
        /\ Len(stack) < MaxDepth
        /\ Room(World, scope.injectors)
        /\ ~bound => outcome = [raised |-> FALSE, value |-> "response"]
        /\ IF ~bound
           THEN /\ call' = [Did("create_fork_call", NoScope, "none", TRUE, 0, "none", <<>>,
                                "TypeError")
                            EXCEPT !.given = [source |-> source_bucket, kw |-> kw]]
                /\ pending' = "TypeError"
                /\ UNCHANGED <<registry, heap, installed>>
           ELSE /\ SetWorld(exited.w)
                /\ call' = [Did("create_fork_call", scope, "CreateBucket", outcome.raised, 0,
                                "none", sent, outcome.value)
                            EXCEPT !.given = [source |-> source_bucket, kw |-> kw],
                                   !.invoked = <<[client |-> s3_client, args |-> "CreateBucket",
                                                  outcome |-> outcome]>>]
                /\ pending' = IF outcome.raised THEN outcome.value ELSE "none"
        /\ UNCHANGED <<stack, peak, faults>>
        /\ UNCHANGED HandleVars

\* the snapshot_version arguments callers construct scopes with
ScopeVersions == {None, "", "v1", "abc123"}

\* `TigrisSnapshot(s3_client, bucket_name, snapshot_version)` or
\* `TigrisFork(s3_client, source_bucket, snapshot_version)` is evaluated:
\* __init__ makes the scope's injectors and registers nothing
Construct(kind, s3_client, bucket, snapshot_version) ==
    LET scope == IF kind = "TigrisSnapshot"
                 THEN TigrisSnapshot(s3_client, bucket, snapshot_version)
                 ELSE TigrisFork(s3_client, bucket, snapshot_version)
    IN  /\ pending = "none"
        /\ call' = [Did("construct", scope, "none", FALSE, 0, "none", <<>>, "none")
                    EXCEPT !.given = [client |-> s3_client, bucket |-> bucket,
                                      version |-> snapshot_version]]
        /\ UNCHANGED <<registry, heap, installed, stack, pending, peak, faults>>
        /\ UNCHANGED HandleVars

HdrVersionResponse == "x-tigris-snapshot-version"

\* the responses callers hand to get_snapshot_version, as dictionaries
Responses ==
    << EmptyDict,
       [k \in {"Location"} |-> "/bucket-a"],
       [k \in {"HTTPHeaders"} |-> [n \in {HdrVersionResponse} |-> "abc123"]],
       [k \in {"ResponseMetadata"} |-> EmptyDict],
       [k \in {"ResponseMetadata"} |-> [m \in {"RequestId"} |-> "r1"]],
       [k \in {"ResponseMetadata"} |-> [m \in {"HTTPHeaders"} |-> EmptyDict]],
       [k \in {"ResponseMetadata"} |->
           [m \in {"HTTPHeaders"} |-> [n \in {"content-length"} |-> "0"]]],
       [k \in {"ResponseMetadata"} |->
           [m \in {"HTTPHeaders"} |-> [n \in {"X-Tigris-Snapshot-Version"} |-> "abc123"]]],
       [k \in {"ResponseMetadata"} |->
           [m \in {"HTTPHeaders"} |-> [n \in {HdrVersionResponse} |-> "abc123"]]],
       [k \in {"ResponseMetadata"} |->
           [m \in {"HTTPHeaders"} |->
               [n \in {HdrVersionResponse, "content-length"} |->
                   IF n = HdrVersionResponse THEN "abc124" ELSE "0"]]],
       [k \in {"ResponseMetadata", "Location"} |->
           IF k = "Location" THEN EmptyDict
           ELSE [m \in {"HTTPHeaders", "RequestId"} |->
                    IF m = "RequestId" THEN EmptyDict
                    ELSE [n \in {HdrVersionResponse} |-> ""]]] >>

\* d.setdefault(key, default): a missing key is added to the dictionary
DictSetDefault(d, key, default) ==
    IF key \in DOMAIN d THEN [value |-> d[key], dict |-> d]
    ELSE [value |-> default,
          dict |-> [k \in DOMAIN d \cup {key} |-> IF k = key THEN default ELSE d[k]]]

\* d.get(key, default): the value and the dictionary, which is left as it is
DictGet(d, key, default) ==
    [value |-> IF key \in DOMAIN d THEN d[key] ELSE default, dict |-> d]

\* helpers.get_snapshot_version, lines 91-96: what it returns and what the
\* response object holds afterwards
get_snapshot_version(response) ==
    LET metadata == DictGet(response, "ResponseMetadata", EmptyDict)
        headers  == DictGet(metadata.value, "HTTPHeaders", EmptyDict)
        version  == DictGet(headers.value, HdrVersionResponse, None)
    IN  [value |-> version.value, response |-> metadata.dict]

\* get_snapshot_version(response) is called
GetSnapshotVersion(response) ==
    LET r == get_snapshot_version(response) IN
    /\ pending = "none"
    /\ call' = [Did("get_snapshot_version", NoScope, "none", FALSE, 0, "none", <<>>, r.value)
                EXCEPT !.given = [response |-> response, after |-> r.response]]
    /\ UNCHANGED <<registry, heap, installed, stack, pending, peak, faults>>
    /\ UNCHANGED HandleVars

NextApi ==
    \/ \E s \in Enclosing : Len(stack) + 1 < MaxDepth /\ Enter(s, 0)
    \/ Exit(0)
    \/ Catch
    \/ \E b \in ForkSources, v \in ForkVersions, n \in ForkNames : ForkedFrom(b, v, n)
    \/ \E c \in ScopeClients, listing \in Outcomes, out \in Outcomes :
          ForkedFromCall(c, "CreateBucket", listing, out)
    \/ \E c \in ScopeClients, b \in ForkSources, kw \in ForkKeywords, out \in Outcomes :
          CreateFork(c, b, kw, out)
    \/ \E k \in {"TigrisSnapshot", "TigrisFork"}, c \in Clients, b \in ForkSources,
          v \in ScopeVersions : Construct(k, c, b, v)
    \/ \E i \in 1 .. Len(Responses) : GetSnapshotVersion(Responses[i])

SpecApi == InitScopes /\ [][NextApi]_vars

----------------------------------------------------------------------------
(* Dict objects: the dictionaries a caller hands over, the private headers  *)
(* of a handle and the shared headers of an entry as numbered objects, so   *)
(* that two names of one dict see each other's changes.  In this layer      *)
(* handles[h].headers is the number of the handle's dict, heap holds the    *)
(* content of every dict, and the caller keeps the dict it handed over.     *)

MaxDicts == 7

DictIds == 1 .. MaxDicts

\* the handles the caller works with; both are on one key
AliasHandles == {"h1", "h2"}

\* the dict a caller made for a handle and still holds
GivenDict(h) == IF h = "h1" THEN 1 ELSE 2

\* the (name, value) items written into a dict after it was handed over
Edits == { <<HdrForkSource, "bucket-b">> }

\* the dicts some name refers to
LiveDicts(hs, reg, inst) ==
    { GivenDict(h) : h \in AliasHandles }
    \cup { hs[h].headers : h \in DOMAIN hs }
    \cup Referenced(reg, inst, <<>>)

\* d.copy(): a new dict object, numbered with the lowest free number
CopyOfSameObject(o, live) == o

CopyOf(o, live) ==
    CHOOSE n \in DictIds : n \notin live /\ \A p \in DictIds : p < n => p \in live

\* d[name] = value
SetItem(d, item) == DictUpdate(d, [n \in {item[1]} |-> item[2]])

\* HeaderInjector.__init__ has run for every handle (self.headers = {}) and
\* the caller holds the dicts it is going to pass to set_headers
InitAlias ==
    /\ handles = [h \in Handles |->
           [client |-> "c1", event_name |-> EventName("CreateBucket"),
            headers |-> CASE h = "h1" -> 3 [] h = "h2" -> 4 [] OTHER -> 5]]
    /\ registry = [k \in {} |-> 0]
    /\ heap = [o \in 1 .. 5 |->
           CASE o = 1 -> [n \in {HdrEnable} |-> "true"]
             [] o = 2 -> [n \in {HdrForkSource} |-> "bucket-a"]
             [] OTHER -> EmptyDict]
    /\ installed = [hk \in Clients \X Events |-> <<>>]
    /\ active = [h \in Handles |-> 0]
    /\ done = [h \in Handles |-> FALSE]
    /\ disciplined = TRUE
    /\ lastOp = Op("init", "none", FALSE, <<>>, EmptyDict)
    /\ ThreadsIdle
    /\ ScopesIdle
    /\ ClientsFixed

\* h.set_headers(d) with the caller's dict, line 32 (the second line of
\* create_header_injector's body): self.headers = headers.copy().  The dict
\* the handle drops is collected when no other name refers to it, and its
\* number may be taken again
SetHeaders(h) ==
    LET kept == LiveDicts([x \in Handles \ {h} |-> handles[x]], registry, installed)
        o    == CopyOf(GivenDict(h), kept)
    IN
    /\ handles' = [handles EXCEPT ![h].headers = o]
    /\ heap' = Collect([p \in DOMAIN heap \cup {o} |->
                            IF p = o THEN heap[GivenDict(h)] ELSE heap[p]],
                       LiveDicts(handles', registry, installed))
    /\ lastOp' = Op("set_headers", h, FALSE, <<>>, EmptyDict)
    /\ UNCHANGED <<registry, installed, active, done, disciplined,
                   pc, local, unregCalls, ScopeVars, LifeVars>>

\* h.add_header(name, value), line 28: self.headers[name] = value
AddHeader(h, item) ==
    /\ heap' = [heap EXCEPT ![handles[h].headers] = SetItem(@, item)]
    /\ lastOp' = Op("add_header", h, FALSE, <<>>, EmptyDict)
    /\ UNCHANGED <<handles, registry, installed, active, done, disciplined,
                   pc, local, unregCalls, ScopeVars, LifeVars>>

\* the caller writes into the dict it handed over: d[name] = value
CallerUpdate(h, item) ==
    /\ heap' = [heap EXCEPT ![GivenDict(h)] = SetItem(@, item)]
    /\ lastOp' = Op("caller_update", h, FALSE, <<>>, EmptyDict)
    /\ UNCHANGED <<handles, registry, installed, active, done, disciplined,
                   pc, local, unregCalls, ScopeVars, LifeVars>>

\* HeaderInjector.register, lines 48-60, on dict objects
RegisterDicts(h) ==
    LET key == RegistryKey(h) IN
    /\ active[h] < MaxActive
    /\ active' = [active EXCEPT ![h] = @ + 1]
    /\ IF key \in DOMAIN registry
       THEN LET e == registry[key] IN
            /\ heap' = [heap EXCEPT ![e.shared_headers] =
                            DictUpdate(@, heap[handles[h].headers])]
            /\ registry' = RegistryPut(registry, key, Incremented(e))
            /\ lastOp' = Op("register", h, FALSE, <<>>, EmptyDict)
            /\ UNCHANGED installed
       ELSE LET o == CopyOf(handles[h].headers, LiveDicts(handles, registry, installed)) IN
            /\ heap' = [p \in DOMAIN heap \cup {o} |->
                           IF p = o THEN heap[handles[h].headers] ELSE heap[p]]
            /\ installed' = EventsRegister(installed, HookOf(h), o)
            /\ registry' = RegistryPut(registry, key,
                   [handler |-> o, ref_count |-> 1, shared_headers |-> o])
            /\ lastOp' = Op("register", h, FALSE,
                   <<[fn |-> "register", hook |-> HookOf(h), handler |-> o]>>, EmptyDict)
    /\ UNCHANGED <<handles, done, disciplined, pc, local, unregCalls, ScopeVars, LifeVars>>

\* HeaderInjector.unregister, lines 62-75, on dict objects, called by a
\* handle that has a register() to match
UnregisterDicts(h) ==
    LET key == RegistryKey(h) IN
    /\ active[h] > 0
    /\ active' = [active EXCEPT ![h] = @ - 1]
    /\ IF key \notin DOMAIN registry
       THEN /\ lastOp' = Op("unregister", h, FALSE, <<>>, EmptyDict)
            /\ UNCHANGED <<registry, heap, installed>>
       ELSE LET e == registry[key] IN
            IF StillNested(e.ref_count)
            THEN /\ registry' = RegistryPut(registry, key, Decremented(e))
                 /\ lastOp' = Op("unregister", h, FALSE, <<>>, EmptyDict)
                 /\ UNCHANGED <<heap, installed>>
            ELSE /\ installed' = EventsUnregister(installed, HookOf(h), e.handler)
                 /\ registry' = RegistryDel(registry, key)
                 /\ heap' = Collect(heap, LiveDicts(handles, registry', installed'))
                 /\ lastOp' = Op("unregister", h, FALSE,
                        <<[fn |-> "unregister", hook |-> HookOf(h), handler |-> e.handler]>>,
                        EmptyDict)
    /\ UNCHANGED <<handles, done, disciplined, pc, local, unregCalls, ScopeVars, LifeVars>>

NextAlias ==
    \/ \E h \in AliasHandles : SetHeaders(h)
    \/ \E h \in AliasHandles, item \in Edits : AddHeader(h, item)
    \/ \E h \in AliasHandles, item \in Edits : CallerUpdate(h, item)
    \/ \E h \in AliasHandles : RegisterDicts(h)
    \/ \E h \in AliasHandles : UnregisterDicts(h)

SpecAlias == InitAlias /\ [][NextAlias]_vars

----------------------------------------------------------------------------
(* Client lifetime: the caller creates and drops clients and handles.  A    *)
(* HeaderInjector refers to its client (self.client); the registry refers   *)
(* to the callback and the shared dict only, so an entry left by a dropped  *)
(* handle does not keep the client alive                                    *)

\* the numbers id() returns: unique among the objects alive at one time
ClientIds == 1 .. (Cardinality(Clients) + 1)

\* the name is bound to a client object
Alive(c) == ident[c] \in ClientIds

\* the handle names the caller of this layer uses
LifeHandles == {"h1", "h2"}

\* a handle the caller may register on a client of the run
EnableOn(c) == create_header_injector(c, "CreateBucket", [n \in {HdrEnable} |-> "true"])

InitClients ==
    /\ handles = [h \in Handles |-> EnableOn("c1")]
    /\ registry = [k \in {} |-> 0]
    /\ heap = [o \in {} |-> EmptyDict]
    /\ installed = [hk \in Clients \X Events |-> <<>>]
    /\ active = [h \in Handles |-> 0]
    /\ done = [h \in Handles |-> FALSE]
    /\ disciplined = TRUE
    /\ lastOp = Op("init", "none", FALSE, <<>>, EmptyDict)
    /\ ThreadsIdle
    /\ ScopesIdle
    /\ ident = [c \in Clients |-> IdOf(c)]
    /\ held = [h \in Handles |-> h = "h1"]

\* `c = boto3.client("s3", ...)`: a new client object with an empty event
\* system; id() of it is any number that no live client has
NewClient(c) ==
    /\ ~Alive(c)
    /\ \E i \in ClientIds \ { ident[d] : d \in Clients } :
          ident' = [ident EXCEPT ![c] = i]
    /\ lastOp' = Op("new_client", c, FALSE, <<>>, EmptyDict)
    /\ UNCHANGED <<handles, registry, heap, installed, active, done, disciplined,
                   held, pc, local, unregCalls, ScopeVars>>

\* the caller drops the client and no handle refers to it: the client and
\* its event system are freed, _handler_registry is left as it is
DisposeClient(c) ==
    /\ Alive(c)
    /\ \A h \in Handles : held[h] => handles[h].client # c
    /\ ident' = [ident EXCEPT ![c] = 0]
    /\ installed' = [hk \in DOMAIN installed |->
                        IF hk[1] = c THEN <<>> ELSE installed[hk]]
    /\ heap' = Collect(heap, Referenced(registry, installed', local))
    /\ lastOp' = Op("del_client", c, FALSE, <<>>, EmptyDict)
    /\ UNCHANGED <<handles, registry, active, done, disciplined,
                   held, pc, local, unregCalls, ScopeVars>>

\* create_header_injector(c, "CreateBucket", ...) on a live client.  The
\* caller makes new handles only while the counts left by dropped ones are
\* below MaxActive
NewHandle(h, c) ==
    /\ ~held[h]
    /\ Alive(c)
    /\ \A k \in DOMAIN registry : registry[k].ref_count < MaxActive
    /\ handles' = [handles EXCEPT ![h] = EnableOn(c)]
    /\ held' = [held EXCEPT ![h] = TRUE]
    /\ active' = [active EXCEPT ![h] = 0]
    /\ done' = [done EXCEPT ![h] = FALSE]
    /\ lastOp' = Op("new_handle", h, FALSE, <<>>, EmptyDict)
    /\ UNCHANGED <<registry, heap, installed, disciplined, ident,
                   pc, local, unregCalls, ScopeVars>>

\* the caller drops a handle, whether its register() calls were matched by
\* unregister() calls or not
DropHandle(h) ==
    /\ held[h]
    /\ held' = [held EXCEPT ![h] = FALSE]
    /\ lastOp' = Op("del_handle", h, FALSE, <<>>, EmptyDict)
    /\ UNCHANGED <<handles, registry, heap, installed, active, done, disciplined,
                   ident, pc, local, unregCalls, ScopeVars>>

\* register() of a handle that is not registered (the caller of this layer
\* enters no handle twice)
RegisterOnce(h) == active[h] = 0 /\ Register(h)

\* unregister() matching the handle's register()
UnregisterOnce(h) == active[h] > 0 /\ Unregister(h)

NextClients ==
    \/ \E h \in Handles : RegisterOnce(h)
    \/ \E h \in Handles : UnregisterOnce(h)
    \/ \E c \in Clients : NewClient(c)
    \/ \E c \in Clients : DisposeClient(c)
    \/ \E h \in LifeHandles, c \in Clients : NewHandle(h, c)
    \/ \E h \in Handles : DropHandle(h)

SpecClients == InitClients /\ [][NextClients]_vars

----------------------------------------------------------------------------
(* Properties of the sequential caller *)

KeyOfHook(hook) == <<IdOf(hook[1]), hook[2]>>

HandlesOn(key) == { h \in Handles : RegistryKey(h) = key }

IsCall(op, h) == lastOp'.op = op /\ lastOp'.who = h

\* C1: however many handles register on one registry key, at most one callback
\* is installed on the client for that key in every reachable state, and while
\* the key has an entry exactly one is installed: the entry's handler.
C1_SingleRegistration ==
    \A hook \in DOMAIN installed :
        /\ Len(installed[hook]) <= 1
        /\ KeyOfHook(hook) \in DOMAIN registry =>
               installed[hook] = <<registry[KeyOfHook(hook)].handler>>

C1_Witness ==
    \E k \in DOMAIN registry :
        /\ registry[k].ref_count = 3
        /\ \A h \in Handles : RegistryKey(h) = k /\ active[h] = 1
        /\ lastOp.op = "register"
        /\ lastOp.calls = <<>>

\* C2: when every register() on a key has been matched by one unregister() of
\* the same handle, in whatever order, the key has no entry and no callback
\* is left on the client: the registry is as it was before the registrations.
C2_BalancedLifecycle ==
    disciplined =>
        \A hook \in DOMAIN installed :
            (\A h \in HandlesOn(KeyOfHook(hook)) : active[h] = 0) =>
                /\ KeyOfHook(hook) \notin DOMAIN registry
                /\ installed[hook] = <<>>

C2_Witness ==
    /\ disciplined
    /\ \A h \in Handles : done[h] /\ active[h] = 0
    /\ \A h \in Handles : RegistryKey(h) = RegistryKey("h1")
    /\ lastOp.op = "unregister"
    /\ lastOp.who = "h1"
    /\ Len(lastOp.calls) = 1
    /\ registry = [k \in {} |-> 0]

\* C3: a register() on a key without entry makes the count 1 and registers
\* the callback; a register() on a key with an entry adds 1 to the count and
\* registers nothing; an unregister() that finds a count of 2 or more only
\* lowers it by 1 and the callback stays installed; an unregister() that finds
\* a count of 1 unregisters the callback and removes the entry; whichever
\* handle makes the call.
C3_Step ==
    \A h \in Handles :
        LET k == RegistryKey(h)
            hook == HookOf(h) IN
        /\ (IsCall("register", h) /\ k \notin DOMAIN registry) =>
               /\ k \in DOMAIN registry'
               /\ registry'[k].ref_count = 1
               /\ installed'[hook] = <<registry'[k].handler>>
               /\ lastOp'.calls =
                      <<[fn |-> "register", hook |-> hook, handler |-> registry'[k].handler]>>
        /\ (IsCall("register", h) /\ k \in DOMAIN registry) =>
               /\ k \in DOMAIN registry'
               /\ registry'[k].ref_count = registry[k].ref_count + 1
               /\ registry'[k].handler = registry[k].handler
               /\ installed' = installed
               /\ lastOp'.calls = <<>>
        /\ (IsCall("unregister", h) /\ k \in DOMAIN registry /\ registry[k].ref_count >= 2) =>
               /\ k \in DOMAIN registry'
               /\ registry'[k].ref_count = registry[k].ref_count - 1
               /\ installed' = installed
               /\ installed'[hook] = <<registry[k].handler>>
               /\ lastOp'.calls = <<>>
        /\ (IsCall("unregister", h) /\ k \in DOMAIN registry /\ registry[k].ref_count = 1) =>
               /\ k \notin DOMAIN registry'
               /\ installed'[hook] = <<>>
               /\ lastOp'.calls =
                      <<[fn |-> "unregister", hook |-> hook, handler |-> registry[k].handler]>>

C3_CallbackLifetime == [][C3_Step]_vars

\* the first of two overlapping handles has unregistered: count 1, callback still installed
C3_Witness ==
    \E h \in Handles, g \in Handles :
        /\ h # g
        /\ RegistryKey(h) = RegistryKey(g)
        /\ lastOp.op = "unregister"
        /\ lastOp.who = h
        /\ done[h]
        /\ active[g] = 1
        /\ disciplined
        /\ RegistryKey(g) \in DOMAIN registry
        /\ registry[RegistryKey(g)].ref_count = 1
        /\ Len(installed[HookOf(g)]) = 1

\* C4: after a handle registers, a request of its client and event carries
\* every header of that handle with the handle's value (a name that an earlier
\* handle had set is overwritten) and every other header it carried before,
\* and nothing else; a request carries what the entry's header set holds.
C4_Step ==
    /\ \A h \in Handles :
           IsCall("register", h) /\ ~lastOp'.raised =>
               LET old == Injected(HookOf(h))
                   new == Injected(HookOf(h))'
                   own == handles[h].headers IN
               /\ DOMAIN new = DOMAIN old \cup DOMAIN own
               /\ \A n \in DOMAIN own : new[n] = own[n]
               /\ \A n \in DOMAIN old \ DOMAIN own : new[n] = old[n]
    /\ \A hook \in DOMAIN installed :
           IsCall("request", hook) =>
               lastOp'.sent =
                   IF KeyOfHook(hook) \in DOMAIN registry
                   THEN heap[registry[KeyOfHook(hook)].shared_headers]
                   ELSE EmptyDict

C4_LastWriteWins == [][C4_Step]_vars

\* a request sent after "bucket-a" and then "bucket-b" were registered for one name
C4_Witness ==
    \E a \in Handles, b \in Handles :
        /\ lastOp.op = "request"
        /\ lastOp.who = HookOf(a)
        /\ HookOf(b) = HookOf(a)
        /\ active[a] = 1
        /\ active[b] = 1
        /\ handles[a].headers = [n \in {HdrForkSource} |-> "bucket-a"]
        /\ HdrForkSnapshot \in DOMAIN handles[b].headers
        /\ DOMAIN lastOp.sent = {HdrForkSource, HdrForkSnapshot}
        /\ lastOp.sent[HdrForkSource] = "bucket-b"

\* C5: an unregister() that finds a count of 2 or more leaves the entry's
\* header set, its handler, the client's callbacks and what a request carries
\* exactly as they were; only the count changes, by one.
C5_Step ==
    \A h \in Handles :
        LET k == RegistryKey(h) IN
        (IsCall("unregister", h) /\ k \in DOMAIN registry /\ registry[k].ref_count >= 2) =>
            /\ k \in DOMAIN registry'
            /\ registry'[k].handler = registry[k].handler
            /\ registry'[k].shared_headers = registry[k].shared_headers
            /\ registry'[k].ref_count = registry[k].ref_count - 1
            /\ heap' = heap
            /\ installed' = installed
            /\ Injected(HookOf(h))' = Injected(HookOf(h))
            /\ \A j \in DOMAIN registry \ {k} : registry'[j] = registry[j]

C5_StickyHeaders == [][C5_Step]_vars

\* the handle that overwrote a header has unregistered and its value is still injected
C5_Witness ==
    \E h \in Handles, g \in Handles :
        /\ h # g
        /\ HookOf(h) = HookOf(g)
        /\ lastOp.op = "unregister"
        /\ lastOp.who = h
        /\ done[h]
        /\ active[g] = 1
        /\ disciplined
        /\ HdrForkSource \in DOMAIN handles[g].headers
        /\ HdrForkSource \in DOMAIN handles[h].headers
        /\ handles[g].headers[HdrForkSource] # handles[h].headers[HdrForkSource]
        /\ Injected(HookOf(g))[HdrForkSource] = handles[h].headers[HdrForkSource]

\* C6: while a handle that registered on a key has not unregistered, the
\* key keeps its entry and its callback, whatever the other handles call.
C6_NoUnilateralRemoval ==
    \A h \in Handles :
        active[h] > 0 =>
            /\ RegistryKey(h) \in DOMAIN registry
            /\ installed[HookOf(h)] # <<>>

\* C7: an unregister() of a handle whose key has no entry does not raise,
\* makes no call to the client's event hook and changes no registry entry.
C7_Step ==
    \A h \in Handles :
        (IsCall("unregister", h) /\ RegistryKey(h) \notin DOMAIN registry) =>
            /\ ~lastOp'.raised
            /\ lastOp'.calls = <<>>
            /\ registry' = registry
            /\ heap' = heap
            /\ installed' = installed

C7_IdempotentCleanup == [][C7_Step]_vars

\* an unregister() found no entry for its key while another key had one
C7_Witness ==
    /\ lastOp.op = "unregister"
    /\ ~lastOp.raised
    /\ lastOp.calls = <<>>
    /\ RegistryKey(lastOp.who) \notin DOMAIN registry
    /\ active[lastOp.who] = 0
    /\ ~disciplined
    /\ registry # [k \in {} |-> 0]

\* the handle's last call was register() and it returned
JustRegistered(h) == lastOp.op = "register" /\ lastOp.who = h /\ ~lastOp.raised

\* no other handle of the key holds a registration
OnlyActive(h) == \A g \in HandlesOn(RegistryKey(h)) \ {h} : active[g] = 0

\* C18 as claimed: a second register() on the same handle, right after the
\* first, leaves one callback registered and the registry state (count,
\* merged headers) as it was after the first call.
C18_OriginalStep ==
    \A h \in Handles :
        (JustRegistered(h) /\ IsCall("register", h)) =>
            /\ Len(installed'[HookOf(h)]) = 1
            /\ registry' = registry
            /\ heap' = heap

C18_RegisterIdempotent == [][C18_OriginalStep]_vars

\* C18, amended: a second register() on the same handle, right after the
\* first, keeps exactly one callback registered and the merged headers as
\* after the first call, but raises the count by one; so the handle's
\* unregister() removes the entry and the callback only when it matches the
\* handle's last unmatched register(), and lowers the count by one before.
C18_Step ==
    \A h \in Handles :
        LET key == RegistryKey(h) IN
        /\ (JustRegistered(h) /\ IsCall("register", h)) =>
              /\ installed' = installed
              /\ Len(installed'[HookOf(h)]) = 1
              /\ heap' = heap
              /\ key \in DOMAIN registry /\ key \in DOMAIN registry'
              /\ registry'[key].handler = registry[key].handler
              /\ registry'[key].shared_headers = registry[key].shared_headers
              /\ registry'[key].ref_count = registry[key].ref_count + 1
        /\ (IsCall("unregister", h) /\ disciplined /\ active[h] >= 1 /\ OnlyActive(h)) =>
              IF active[h] > 1
              THEN /\ key \in DOMAIN registry'
                   /\ registry'[key].ref_count = active[h] - 1
                   /\ Len(installed'[HookOf(h)]) = 1
              ELSE /\ key \notin DOMAIN registry'
                   /\ installed'[HookOf(h)] = <<>>

C18_RegisterCounts == [][C18_Step]_vars

\* register(), register(), unregister() on h1 alone: the entry and the
\* callback are still there
C18_Witness ==
    /\ lastOp.op = "unregister"
    /\ lastOp.who = "h1"
    /\ disciplined
    /\ active["h1"] = 1
    /\ OnlyActive("h1")
    /\ RegistryKey("h1") \in DOMAIN registry
    /\ registry[RegistryKey("h1")].ref_count = 1
    /\ Len(installed[HookOf("h1")]) = 1

----------------------------------------------------------------------------
(* Properties of the threads *)

\* the thread has returned from register() and from unregister()
Finished(t) == pc[t] = "done"

\* C8: whatever the interleaving of the threads' steps, no entry has a
\* negative count and no client has more than one callback installed for
\* one registry key.
C8_ConcurrentActivation ==
    /\ \A k \in DOMAIN registry : registry[k].ref_count >= 0
    /\ \A hook \in DOMAIN installed : Len(installed[hook]) <= 1

\* C9: when threads run unregister() on active handles of one key, the
\* client's event unregister is invoked at most once for a callback, and no
\* unregister() raises (neither reading the entry, line 67, nor deleting it,
\* line 75).
C9_NoDoubleUnregistration ==
    /\ \A o \in ObjIds : unregCalls[o] <= 1
    /\ \A t \in Threads : local[t].raisedAt \notin {67, 75}

\* C10: once every thread has run register() and then unregister() on its
\* own handle, the registry has no entry for the key and no callback is
\* left installed on the client.
C10_NoLostUpdates ==
    (\A t \in Threads : Finished(t)) =>
        /\ registry = [k \in {} |-> 0]
        /\ \A hook \in DOMAIN installed : installed[hook] = <<>>

----------------------------------------------------------------------------
(* Properties of the scopes *)

NoCallbackOn(client) ==
    \A hook \in DOMAIN installed :
        hook[1] = client => installed[hook] = <<>> /\ Injected(hook) = EmptyDict

\* C11: when no scope is entered on a client, whether none was ever entered
\* or every scope that was entered (nested or in sequence) has been exited,
\* no callback of the library is installed on the client and a request on it
\* carries no injected header.
C11_TransparentOutside ==
    stack = <<>> =>
        /\ \A c \in ScopeClients : NoCallbackOn(c)
        /\ DOMAIN registry = {}
        /\ call.op = "request" => call.sent = EmptyDict

\* a request issued after nested scopes were entered and all exited
C11_Witness ==
    /\ stack = <<>>
    /\ peak = MaxDepth
    /\ call.op = "request"
    /\ call.operation = "GetObject"
    /\ call.sent = EmptyDict

\* C12: while a TigrisSnapshot scope with snapshot_version V is active and
\* every scope nested inside it has exited, a request of each read operation
\* carries X-Tigris-Snapshot-Version = V and no other injected header.
C12_ExactHeadersInside ==
    stack # <<>> =>
        LET scope == stack[Len(stack)].scope IN
        (scope.kind = "TigrisSnapshot" /\ Truthy(scope.version)) =>
            \A i \in 1 .. Len(ReadOperations) :
                Injected(<<scope.client, EventName(ReadOperations[i])>>)
                    = [n \in {HdrSnapshotVersion} |-> scope.version]

\* the registry with the content of every shared dict, as a caller can read it
RegistryContent(reg, hp) ==
    [k \in DOMAIN reg |->
        [handler |-> reg[k].handler, ref_count |-> reg[k].ref_count,
         shared_headers |-> hp[reg[k].shared_headers]]]

\* the registry as it was when the innermost open with-block was entered
ContentBefore ==
    LET b == stack[Len(stack)].before IN RegistryContent(b.registry, b.heap)

\* C13: when the storage operation inside a with-block raised, the scope's
\* exit leaves the same exception in flight (not suppressed, not replaced)
\* and leaves the registry as it was before the scope was entered.
C13_Step ==
    (stack # <<>> /\ pending = "ClientError" /\ call'.op = "exit") =>
        /\ pending' = pending
        /\ RegistryContent(registry', heap') = ContentBefore

C13_CleanupOnError == [][C13_Step]_vars

\* the scope's injector has its callback installed and its headers in force
InstalledWithHeaders(inj) ==
    LET key == InjKey(inj) IN
    /\ key \in DOMAIN registry'
    /\ installed'[InjHook(inj)] = <<registry'[key].handler>>
    /\ \A n \in DOMAIN inj.headers :
          /\ n \in DOMAIN heap'[registry'[key].shared_headers]
          /\ heap'[registry'[key].shared_headers][n] = inj.headers[n]

\* C17: a scope object can be entered and exited again and again: every
\* entry installs the callback with the scope's headers, and every exit
\* leaves the registry as it was before that entry.
C17_Step ==
    /\ (call'.op = "enter" /\ ~call'.raised) =>
          \A j \in 1 .. Len(call'.injectors) : InstalledWithHeaders(call'.injectors[j])
    /\ (call'.op = "exit" /\ stack # <<>>) =>
          RegistryContent(registry', heap') = ContentBefore

C17_ScopeReuse == [][C17_Step]_vars

\* C19: a call of a decorated function enters a fresh scope on the client
\* given as first argument, invokes the original function once with the
\* original arguments, returns its result or lets its exception through
\* unchanged, and leaves the registry as it was before the call.
C19_Step ==
    call'.op = "decorated" =>
        /\ \A j \in 1 .. Len(call'.injectors) :
              /\ call'.injectors[j].client = call'.invoked[1].client
              /\ call'.injectors[j].event_name = EventName(call'.operation) =>
                    \A n \in DOMAIN call'.injectors[j].headers :
                        /\ n \in DOMAIN call'.sent
                        /\ call'.sent[n] = call'.injectors[j].headers[n]
        /\ Len(call'.invoked) = 1
        /\ call'.invoked[1].args = call'.operation
        /\ call'.raised = call'.invoked[1].outcome.raised
        /\ call'.result = call'.invoked[1].outcome.value
        /\ pending' = IF call'.raised THEN call'.result ELSE "none"
        /\ RegistryContent(registry', heap') = RegistryContent(registry, heap)

C19_DecoratedCall == [][C19_Step]_vars

\* C20: a helper opens its scope, performs exactly one delegated storage
\* operation, closes the scope whether the operation returns or raises, and
\* returns the operation's result (or lets its exception through) unchanged;
\* the one CreateBucket request of create_snapshot carries X-Tigris-Snapshot
\* "true", or "true; name=<N>" when a (non-empty) snapshot name N is given.
C20_Step ==
    call'.op \in Helpers =>
        /\ Len(call'.invoked) = 1
        /\ call'.invoked[1].args = call'.operation
        /\ call'.operation =
              (CASE call'.op \in {"create_snapshot_bucket", "create_snapshot", "create_fork"}
                      -> "CreateBucket"
                 [] call'.op = "list_snapshots" -> "ListBuckets"
                 [] call'.op = "get_object_from_snapshot" -> "GetObject"
                 [] call'.op = "list_objects_from_snapshot" -> "ListObjectsV2"
                 [] OTHER -> "HeadObject")
        /\ \A j \in 1 .. Len(call'.injectors) :
              /\ call'.injectors[j].client = call'.invoked[1].client
              /\ call'.injectors[j].event_name = EventName(call'.operation) =>
                    \A n \in DOMAIN call'.injectors[j].headers :
                        /\ n \in DOMAIN call'.sent
                        /\ call'.sent[n] = call'.injectors[j].headers[n]
        /\ call'.raised = call'.invoked[1].outcome.raised
        /\ call'.result = call'.invoked[1].outcome.value
        /\ pending' = IF call'.raised THEN call'.result ELSE "none"
        /\ registry' = registry
        /\ installed' = installed
        /\ stack' = stack
        /\ call'.op = "create_snapshot" =>
              /\ HdrSnapshot \in DOMAIN call'.sent
              /\ call'.sent[HdrSnapshot] =
                    IF call'.given \in {None, ""} THEN "true"
                    ELSE "true; name=" \o call'.given

C20_HelperCall == [][C20_Step]_vars

\* create_snapshot with a name, at top level, whose CreateBucket raised
C20_Witness ==
    /\ call.op = "create_snapshot"
    /\ call.given = "backup-1"
    /\ call.raised
    /\ pending = "ClientError"
    /\ call.sent = [n \in {HdrSnapshot} |-> "true; name=backup-1"]
    /\ stack = <<>>
    /\ DOMAIN registry = {}

----------------------------------------------------------------------------
(* Properties of the scopes on a client whose event system may raise *)

\* the injectors of the innermost open with-block
TopInjectors == stack[Len(stack)].scope.injectors

\* what one unregister() that returns normally leaves of the key's entry
ReleasedOnce(key) ==
    IF StillNested(registry[key].ref_count)
    THEN key \in DOMAIN registry' /\ registry'[key] = Decremented(registry[key])
    ELSE key \notin DOMAIN registry'

\* C14: when a TigrisSnapshot scope owning several injectors exits and the
\* unregister() of one of them raises, every other injector of the scope is
\* unregistered all the same.
C14_Step ==
    (/\ stack # <<>>
     /\ call'.op = "exit"
     /\ call'.raised
     /\ call'.scope = "TigrisSnapshot"
     /\ Len(TopInjectors) > 1) =>
        \A j \in 1 .. Len(TopInjectors) :
            j # call'.at => ReleasedOnce(InjKey(TopInjectors[j]))

C14_ExitAttemptsAll == [][C14_Step]_vars

\* register() of an injector returned normally in this step
RegisteredOnce(inj) ==
    LET key == InjKey(inj) IN
    /\ key \in DOMAIN registry'
    /\ registry'[key].ref_count =
           IF key \in DOMAIN registry THEN registry[key].ref_count + 1 ELSE 1
    /\ installed'[InjHook(inj)] = <<registry'[key].handler>>

\* register() of an injector changed nothing in this step
NotRegisteredNow(inj) ==
    LET key == InjKey(inj) IN
    /\ (key \in DOMAIN registry') = (key \in DOMAIN registry)
    /\ key \in DOMAIN registry => registry'[key] = registry[key]
    /\ installed'[InjHook(inj)] = installed[InjHook(inj)]

\* C15: when register() of the i-th injector raises while a scope is being
\* entered, the injectors before it are registered and stay so (count raised,
\* callback installed), the i-th and the later ones are not registered, and
\* the scope is not among the open with-blocks, so its exit is never run.
C15_Step ==
    (call'.op = "enter" /\ call'.raised) =>
        /\ call'.at \in 1 .. Len(call'.injectors)
        /\ \A j \in 1 .. Len(call'.injectors) :
              IF j < call'.at
              THEN RegisteredOnce(call'.injectors[j])
              ELSE NotRegisteredNow(call'.injectors[j])
        /\ stack' = stack
        /\ pending' = "HookError"

C15_PartialEntry == [][C15_Step]_vars

\* entering a TigrisSnapshot raised at its second injector: ListBuckets is
\* registered, the read operations are not, no with-block is open
C15_Witness ==
    /\ call.op = "enter"
    /\ call.raised
    /\ call.at = 2
    /\ stack = <<>>
    /\ <<1, EventName("ListBuckets")>> \in DOMAIN registry
    /\ registry[<<1, EventName("ListBuckets")>>].ref_count = 1
    /\ <<1, EventName("GetObject")>> \notin DOMAIN registry

\* the entry of an injector's key, its dict and the client's hook are as before
EntryUntouched(inj) ==
    LET key == InjKey(inj) IN
    /\ (key \in DOMAIN registry') = (key \in DOMAIN registry)
    /\ key \in DOMAIN registry =>
          /\ registry'[key] = registry[key]
          /\ heap'[registry[key].shared_headers] = heap[registry[key].shared_headers]
    /\ installed'[InjHook(inj)] = installed[InjHook(inj)]

\* C16: when the client's events.register raises inside register(), no entry
\* is created for the key and no count changes; when the client's
\* events.unregister raises inside unregister(), the entry, its count and its
\* headers stay as before the call; either way the exception reaches the
\* caller.  For a scope with one injector the whole registry is unchanged.
C16_Step ==
    (call'.op \in {"enter", "exit"} /\ call'.raised) =>
        /\ EntryUntouched(call'.injectors[call'.at])
        /\ call'.op = "enter" => InjKey(call'.injectors[call'.at]) \notin DOMAIN registry'
        /\ call'.op = "exit" =>
              /\ InjKey(call'.injectors[call'.at]) \in DOMAIN registry'
              /\ registry'[InjKey(call'.injectors[call'.at])].ref_count = 1
        /\ Len(call'.injectors) = 1 =>
              /\ registry' = registry
              /\ heap' = heap
              /\ installed' = installed
        /\ pending' = "HookError"

C16_NoPartialBookkeeping == [][C16_Step]_vars

\* events.unregister raised when the TigrisSnapshotEnabled scope exited: the
\* entry is still there with its count, headers and callback
C16_Witness ==
    /\ call.op = "exit"
    /\ call.raised
    /\ call.scope = "TigrisSnapshotEnabled"
    /\ pending = "HookError"
    /\ stack = <<>>
    /\ <<1, EventName("CreateBucket")>> \in DOMAIN registry
    /\ registry[<<1, EventName("CreateBucket")>>].ref_count = 1
    /\ Injected(<<"c1", EventName("CreateBucket")>>) = [n \in {HdrEnable} |-> "true"]

----------------------------------------------------------------------------
(* Properties of the fork calls *)

\* the step just taken was a create_fork call with these keyword arguments
CreateForkGiven(c, both) ==
    /\ c.op = "create_fork_call"
    /\ "snapshot_name" \in DOMAIN c.given.kw
    /\ Truthy(c.given.kw["snapshot_name"])
    /\ both = ("snapshot_version" \in DOMAIN c.given.kw
                 /\ Truthy(c.given.kw["snapshot_version"]))

\* the step sent no request, entered no scope and called no function
NothingAttempted(c) ==
    /\ c.operation = "none"
    /\ c.sent = <<>>
    /\ c.lookup = <<>>
    /\ c.invoked = <<>>
    /\ c.scope = "none"

WorldUnchanged ==
    /\ RegistryContent(registry', heap') = RegistryContent(registry, heap)
    /\ installed' = installed

\* C21: create_fork called with both a snapshot version and a snapshot name
\* raises the ValueError "Cannot specify both ...", before any request is
\* sent and without registering a handler
C21_Step ==
    CreateForkGiven(call', TRUE) =>
        /\ call'.raised
        /\ call'.result = BothGivenError
        /\ NothingAttempted(call')
        /\ WorldUnchanged

C21_CreateForkExclusive == [][C21_Step]_vars

\* C22: forked_from given both a snapshot version and a snapshot name raises
\* the ValueError "Cannot specify both ..." when the decorator is applied: no
\* wrapper is made, no function called, no request sent, and the registry
\* and the clients' callbacks stay as they were
C22_Step ==
    (call'.op = "forked_from"
       /\ Truthy(call'.given.version) /\ Truthy(call'.given.name)) =>
        /\ call'.raised
        /\ call'.result = BothGivenError
        /\ pending' = BothGivenError
        /\ NothingAttempted(call')
        /\ WorldUnchanged

C22_DecoratorExclusive == [][C22_Step]_vars

\* both arguments were given inside a with-block holding the CreateBucket key
C22_Witness ==
    /\ call.op = "forked_from"
    /\ call.given.version = "abc123"
    /\ call.given.name = "v2"
    /\ call.raised
    /\ stack # <<>>
    /\ <<IdOf("c1"), EventName("CreateBucket")>> \in DOMAIN registry

\* the step just taken forked source by a snapshot name, through create_fork
\* or through a function decorated with forked_from
ForkByName(c, source, name) ==
    \/ /\ CreateForkGiven(c, FALSE)
       /\ c.given.source = source
       /\ c.given.kw["snapshot_name"] = name
    \/ /\ c.op = "forked_from_call"
       /\ c.given.source = source
       /\ c.given.name = name
       /\ Truthy(name)
       /\ \A i \in 1 .. Len(c.lookup) : ~c.lookup[i].outcome.raised

NamesOf(source) == { SnapshotsOf(source)[i].name : i \in 1 .. Len(SnapshotsOf(source)) }

\* C23: a fork by the name of a snapshot of the source bucket sends its
\* CreateBucket request with X-Tigris-Fork-Source-Bucket-Snapshot set to the
\* version listed under that name (abc123 for v2 among v1, v2, v3)
C23_Step ==
    \A source \in ForkSources, i \in 1 .. 3 :
        (i <= Len(SnapshotsOf(source))
           /\ ForkByName(call', source, SnapshotsOf(source)[i].name)) =>
            /\ call'.scope = "TigrisFork"
            /\ call'.operation = "CreateBucket"
            /\ HdrForkSnapshot \in DOMAIN call'.sent
            /\ call'.sent[HdrForkSnapshot] = SnapshotsOf(source)[i].version
            /\ call'.sent[HdrForkSource] = source

C23_NameResolution == [][C23_Step]_vars

\* C24: a fork by a name that no snapshot of the source bucket carries
\* raises the ValueError "... not found ...", creates no bucket, does not
\* call the wrapped function, enters no Fork scope and leaves the registry
\* as it was
C24_Step ==
    \A source \in ForkSources : \A name \in ForkNames \ NamesOf(source) :
        ForkByName(call', source, name) =>
            /\ call'.raised
            /\ call'.result = NotFoundError
            /\ pending' = NotFoundError
            /\ call'.operation = "none"
            /\ call'.invoked = <<>>
            /\ call'.scope = "none"
            /\ WorldUnchanged

C24_UnknownName == [][C24_Step]_vars

----------------------------------------------------------------------------
(* Properties of the scope constructors *)

\* the step just taken constructed a scope of that kind
Constructed(kind) == call.op = "construct" /\ call.scope = kind

\* C25: a TigrisSnapshot scope owns one handle on ListBuckets with the header
\* X-Tigris-Snapshot = bucket name and, exactly when a snapshot version V is
\* specified (a non-empty value), four more handles, one on each of
\* GetObject, ListObjectsV2, HeadObject and ListObjects, each with the single
\* header X-Tigris-Snapshot-Version = V; it owns no handle on another event
C25_SnapshotComposition ==
    Constructed("TigrisSnapshot") =>
        LET injs == call.injectors
            g    == call.given
            reads == {"before-sign.s3.GetObject", "before-sign.s3.ListObjectsV2",
                      "before-sign.s3.HeadObject", "before-sign.s3.ListObjects"}
        IN  /\ Len(injs) >= 1
            /\ injs[1] = [client |-> g.client, event_name |-> "before-sign.s3.ListBuckets",
                          headers |-> [n \in {"X-Tigris-Snapshot"} |-> g.bucket]]
            /\ \A i \in 2 .. Len(injs) :
                  /\ injs[i].client = g.client
                  /\ injs[i].event_name \in reads
                  /\ injs[i].headers = [n \in {"X-Tigris-Snapshot-Version"} |-> g.version]
            /\ IF g.version \notin {None, ""}
               THEN /\ Len(injs) = 5
                    /\ { injs[i].event_name : i \in 2 .. 5 } = reads
               ELSE Len(injs) = 1

\* a snapshot scope pinned to a version was constructed
C25_Witness ==
    /\ Constructed("TigrisSnapshot")
    /\ call.given.version = "v1"
    /\ Len(call.injectors) = 5

\* C26: a TigrisFork scope owns exactly one handle, on CreateBucket, with the
\* header X-Tigris-Fork-Source-Bucket = source bucket and, exactly when a
\* snapshot version is specified (a non-empty value), the header
\* X-Tigris-Fork-Source-Bucket-Snapshot = that version; no other header
C26_ForkComposition ==
    Constructed("TigrisFork") =>
        LET injs == call.injectors
            g    == call.given
        IN  /\ Len(injs) = 1
            /\ injs[1].client = g.client
            /\ injs[1].event_name = "before-sign.s3.CreateBucket"
            /\ injs[1].headers["X-Tigris-Fork-Source-Bucket"] = g.bucket
            /\ IF g.version \notin {None, ""}
               THEN /\ DOMAIN injs[1].headers = {"X-Tigris-Fork-Source-Bucket",
                                                  "X-Tigris-Fork-Source-Bucket-Snapshot"}
                    /\ injs[1].headers["X-Tigris-Fork-Source-Bucket-Snapshot"] = g.version
               ELSE DOMAIN injs[1].headers = {"X-Tigris-Fork-Source-Bucket"}

\* a fork scope of a snapshot version was constructed
C26_Witness ==
    /\ Constructed("TigrisFork")
    /\ call.given.version = "abc123"
    /\ call.given.bucket = "bucket-b"
    /\ DOMAIN call.injectors[1].headers = {HdrForkSource, HdrForkSnapshot}

----------------------------------------------------------------------------
(* Properties of the response parsing *)

\* C29: get_snapshot_version returns the value of the
\* x-tigris-snapshot-version header found under ResponseMetadata.HTTPHeaders
\* of the response and None when one of the levels is missing; it sends no
\* request and changes neither the registry nor the response
C29_Step ==
    call'.op = "get_snapshot_version" =>
        LET r == call'.given.response IN
        /\ call'.result =
              IF /\ "ResponseMetadata" \in DOMAIN r
                 /\ "HTTPHeaders" \in DOMAIN r["ResponseMetadata"]
                 /\ "x-tigris-snapshot-version" \in DOMAIN r["ResponseMetadata"]["HTTPHeaders"]
              THEN r["ResponseMetadata"]["HTTPHeaders"]["x-tigris-snapshot-version"]
              ELSE None
        /\ ~call'.raised
        /\ pending' = "none"
        /\ NothingAttempted(call')
        /\ WorldUnchanged
        /\ registry' = registry
        /\ stack' = stack
        /\ call'.given.after = r

C29_VersionOfResponse == [][C29_Step]_vars

\* a version was read from a response while a scope held registry entries
C29_Witness ==
    /\ call.op = "get_snapshot_version"
    /\ call.result = "abc123"
    /\ stack # <<>>
    /\ registry # <<>>

----------------------------------------------------------------------------
(* Properties of the dict objects *)

\* what every client's callbacks inject, event by event
InjectedBy(hp, inst) == [hk \in DOMAIN inst |-> RunHandlersIn(hp, inst[hk], EmptyDict)]

\* C30: the shared header set of an entry is a copy of the first handle's
\* headers and a handle's headers are a copy of the dict given to it (equal
\* content, another object); writing into the caller's dict or into the
\* handle's headers (add_header, set_headers) leaves what the installed
\* callbacks inject as it was
C30_Step ==
    /\ lastOp'.op \in {"set_headers", "add_header", "caller_update"} =>
          InjectedBy(heap', installed') = InjectedBy(heap, installed)
    /\ lastOp'.op = "set_headers" =>
          LET h == lastOp'.who IN
          /\ handles'[h].headers # GivenDict(h)
          /\ heap'[handles'[h].headers] = heap[GivenDict(h)]
    /\ (lastOp'.op = "register" /\ RegistryKey(lastOp'.who) \notin DOMAIN registry) =>
          LET h == lastOp'.who
              o == registry'[RegistryKey(h)].shared_headers
          IN  /\ o \notin { handles[x].headers : x \in Handles }
              /\ o \notin { GivenDict(x) : x \in AliasHandles }
              /\ heap'[o] = heap[handles[h].headers]

C30_NoAliasing == [][C30_Step]_vars

\* a registered handle's headers were changed and are no longer what the
\* installed callback injects
C30_Witness ==
    /\ lastOp.op = "add_header"
    /\ active[lastOp.who] > 0
    /\ RegistryKey(lastOp.who) \in DOMAIN registry
    /\ heap[handles[lastOp.who].headers] # heap[registry[RegistryKey(lastOp.who)].shared_headers]
    /\ heap[GivenDict(lastOp.who)] # heap[handles[lastOp.who].headers]

----------------------------------------------------------------------------
(* Properties of the registry key *)

\* two handles were made for the same client object and the same event name
SameTarget(h, g) ==
    /\ handles[h].client = handles[g].client
    /\ handles[h].event_name = handles[g].event_name

\* C27: handles made independently for the same client object and the same
\* event name share one registry entry: a register() while such a handle is
\* registered adds 1 to the count of that entry and installs nothing; handles
\* that differ in the client object or in the event name have different keys,
\* and a register() while only such handles are registered makes an entry
\* and a callback of its own and leaves theirs as they are
C27_Step ==
    /\ \A h, g \in Handles : SameTarget(h, g) <=> RegistryKey(h) = RegistryKey(g)
    /\ \A h \in Handles :
          (IsCall("register", h) /\ disciplined) =>
              LET key   == <<IdOf(handles[h].client), handles[h].event_name>>
                  hook  == <<handles[h].client, handles[h].event_name>>
                  peers == { g \in Handles \ {h} : active[g] > 0 }
              IN  /\ (\E g \in peers : SameTarget(h, g)) =>
                        /\ key \in DOMAIN registry
                        /\ DOMAIN registry' = DOMAIN registry
                        /\ registry'[key].ref_count = registry[key].ref_count + 1
                        /\ registry'[key].handler = registry[key].handler
                        /\ installed' = installed
                        /\ lastOp'.calls = <<>>
                  /\ (active[h] = 0 /\ \A g \in peers : ~SameTarget(h, g)) =>
                        /\ key \notin DOMAIN registry
                        /\ DOMAIN registry' = DOMAIN registry \cup {key}
                        /\ registry'[key].ref_count = 1
                        /\ installed'[hook] = <<registry'[key].handler>>
                        /\ \A k \in DOMAIN registry : registry'[k] = registry[k]
                        /\ \A hk \in DOMAIN installed \ {hook} :
                              installed'[hk] = installed[hk]

C27_KeyByValue == [][C27_Step]_vars

\* h2 joined the entry of h1 while h3 holds an entry of another key
C27_Witness ==
    /\ disciplined
    /\ lastOp.op = "register"
    /\ lastOp.who = "h2"
    /\ SameTarget("h1", "h2")
    /\ ~SameTarget("h1", "h3")
    /\ active = [h \in Handles |-> 1]
    /\ registry[RegistryKey("h1")].ref_count = 2
    /\ registry[RegistryKey("h3")].ref_count = 1

\* C28: while a handle has a register() that no unregister() of it has
\* matched, its key keeps its entry and the entry's callback stays installed
\* on the client, whatever the other handles of the key register and
\* unregister in matched pairs
C28_AbandonedHandleLeaks ==
    disciplined =>
        \A h \in Handles :
            active[h] > 0 =>
                LET key  == <<IdOf(handles[h].client), handles[h].event_name>>
                    hook == <<handles[h].client, handles[h].event_name>>
                IN  /\ key \in DOMAIN registry
                    /\ registry[key].ref_count >= active[h]
                    /\ installed[hook] = <<registry[key].handler>>

\* h1 registered and did not unregister; another handle of its key has
\* since registered and unregistered
C28_Witness ==
    /\ disciplined
    /\ active["h1"] = 1
    /\ lastOp.op = "unregister"
    /\ lastOp.who = "h2"
    /\ SameTarget("h1", "h2")
    /\ done["h2"]
    /\ active["h2"] = 0
    /\ active["h3"] = 0
    /\ registry[RegistryKey("h1")].ref_count = 1
    /\ Len(installed[HookOf("h1")]) = 1

----------------------------------------------------------------------------
(* Properties of the shared header set *)

\* C31: a request of a key that has an entry is signed by the one callback
\* of the entry, the one registered when the entry was made, and carries the
\* entry's header set as it is at that moment: the names of every handle
\* registered on the key, also of those that registered after the callback
\* was installed
C31_SharedReadAtRequest ==
    \A hook \in DOMAIN installed :
        (lastOp.op = "request" /\ lastOp.who = hook
           /\ KeyOfHook(hook) \in DOMAIN registry) =>
            LET e == registry[KeyOfHook(hook)] IN
            /\ installed[hook] = <<e.handler>>
            /\ lastOp.sent = heap[e.shared_headers]
            /\ disciplined =>
                  \A h \in Handles :
                      (HookOf(h) = hook /\ active[h] > 0) =>
                          \A n \in DOMAIN handles[h].headers : n \in DOMAIN lastOp.sent

\* a request carries the header of a handle that registered second
C31_Witness ==
    /\ lastOp.op = "request"
    /\ lastOp.who = HookOf("h1")
    /\ HookOf("h2") = HookOf("h1")
    /\ disciplined
    /\ active["h1"] = 1
    /\ active["h2"] = 1
    /\ active["h3"] = 0
    /\ handles["h1"].headers = [n \in {HdrEnable} |-> "true"]
    /\ handles["h2"].headers = [n \in {HdrForkSource} |-> "bucket-a"]
    /\ lastOp.sent = [n \in {HdrEnable, HdrForkSource} |->
                         IF n = HdrEnable THEN "true" ELSE "bucket-a"]
    /\ Len(installed[HookOf("h1")]) = 1

\* C32: a register() on a key whose handles have all unregistered (the count
\* reached zero and the entry was deleted) makes a new entry with count 1
\* whose header set holds the headers of the registering handle and nothing
\* of the handles registered before, and registers one new callback
C32_FreshAfterTeardown ==
    \A h \in Handles :
        (/\ disciplined
         /\ lastOp.op = "register"
         /\ lastOp.who = h
         /\ ~lastOp.raised
         /\ active[h] = 1
         /\ \A g \in Handles \ {h} : SameTarget(h, g) => active[g] = 0) =>
            LET key  == <<IdOf(handles[h].client), handles[h].event_name>>
                hook == <<handles[h].client, handles[h].event_name>>
            IN  /\ key \in DOMAIN registry
                /\ registry[key].ref_count = 1
                /\ heap[registry[key].shared_headers] = handles[h].headers
                /\ installed[hook] = <<registry[key].handler>>
                /\ lastOp.calls = <<[fn |-> "register", hook |-> hook,
                                     handler |-> registry[key].handler]>>

\* h1 registered after h2, with another header, had registered and
\* unregistered on the same key
C32_Witness ==
    /\ disciplined
    /\ lastOp.op = "register"
    /\ lastOp.who = "h1"
    /\ active["h1"] = 1
    /\ SameTarget("h1", "h2")
    /\ done["h2"]
    /\ active["h2"] = 0
    /\ HdrForkSource \in DOMAIN handles["h2"].headers
    /\ handles["h1"].headers = [n \in {HdrEnable} |-> "true"]
    /\ heap[registry[RegistryKey("h1")].shared_headers] = [n \in {HdrEnable} |-> "true"]

----------------------------------------------------------------------------
(* Properties of the registry as a whole *)

\* C35: in every state reached by register() and unregister() calls that
\* returned normally, a key has an entry exactly when one callback is
\* installed on that client for that event (none otherwise), and every entry
\* has a count of at least 1
C35_RegistryMatchesCallbacks ==
    /\ \A hook \in DOMAIN installed :
          /\ KeyOfHook(hook) \in DOMAIN registry <=> Len(installed[hook]) = 1
          /\ Len(installed[hook]) <= 1
    /\ \A key \in DOMAIN registry :
          /\ registry[key].ref_count >= 1
          /\ \E hook \in DOMAIN installed : KeyOfHook(hook) = key

\* entries on both clients, one of them shared by two handles, after calls
\* that all returned
C35_Witness ==
    /\ ~lastOp.raised
    /\ Cardinality(DOMAIN registry) = 2
    /\ \E k \in DOMAIN registry : registry[k].ref_count = 2
    /\ \E k \in DOMAIN registry : k[1] = IdOf("c2")
    /\ lastOp.op = "unregister"

RECURSIVE SumActive(_)
SumActive(hs) ==
    IF hs = {} THEN 0
    ELSE LET h == CHOOSE x \in hs : TRUE IN active[h] + SumActive(hs \ {h})

\* C36: while every unregister() of a handle has matched an earlier
\* register() of that handle, the count of a key's entry is the number of
\* register() calls on the key not yet matched, a handle registered twice
\* counting twice; a key without entry has none
C36_CountIsActive ==
    disciplined =>
        \A hook \in DOMAIN installed :
            LET key == KeyOfHook(hook)
                n   == SumActive({ h \in Handles : HookOf(h) = hook })
            IN  IF key \in DOMAIN registry
                THEN registry[key].ref_count = n
                ELSE n = 0

\* one handle registered twice and another once on the same key
C36_Witness ==
    /\ disciplined
    /\ active["h1"] = 2
    /\ active["h2"] = 1
    /\ active["h3"] = 0
    /\ HookOf("h1") = HookOf("h2")
    /\ registry[RegistryKey("h1")].ref_count = 3
    /\ lastOp.op = "unregister"

\* C37: register() and unregister() on the key of one client and event leave
\* the entry, count, header set and installed callbacks of every other key
\* as they were, and with them what requests of another client, or of
\* another event of the same client, carry
C37_Step ==
    \A h \in Handles :
        (IsCall("register", h) \/ IsCall("unregister", h)) =>
            LET key  == <<IdOf(handles[h].client), handles[h].event_name>>
                hook == <<handles[h].client, handles[h].event_name>>
            IN  /\ DOMAIN registry' \ {key} = DOMAIN registry \ {key}
                /\ \A k \in DOMAIN registry \ {key} :
                      /\ registry'[k] = registry[k]
                      /\ heap'[registry'[k].shared_headers] = heap[registry[k].shared_headers]
                /\ \A hk \in DOMAIN installed \ {hook} :
                      /\ installed'[hk] = installed[hk]
                      /\ RunHandlersIn(heap', installed'[hk], EmptyDict)
                            = RunHandlersIn(heap, installed[hk], EmptyDict)

C37_KeysIndependent == [][C37_Step]_vars

\* h1 unregistered its last registration while entries of another event of
\* its client and of another client stayed
C37_Witness ==
    /\ lastOp.op = "unregister"
    /\ lastOp.who = "h1"
    /\ Len(lastOp.calls) = 1
    /\ handles["h2"].event_name # handles["h1"].event_name
    /\ handles["h3"].client = "c2"
    /\ active["h2"] = 1
    /\ active["h3"] = 1
    /\ RegistryKey("h1") \notin DOMAIN registry
    /\ RegistryKey("h2") \in DOMAIN registry
    /\ RegistryKey("h3") \in DOMAIN registry
    /\ Len(installed[HookOf("h2")]) = 1
    /\ Len(installed[HookOf("h3")]) = 1

\* C39: the unregister() that takes the count of a key to zero passes to the
\* client's events.unregister, for the handle's event name, the callback
\* that events.register was given when the entry was made: it was the one
\* callback on the hook and the hook is empty afterwards, whichever handle
\* makes that call
C39_Step ==
    \A h \in Handles :
        (IsCall("unregister", h) /\ lastOp'.calls # <<>>) =>
            LET key  == <<IdOf(handles[h].client), handles[h].event_name>>
                hook == <<handles[h].client, handles[h].event_name>>
            IN  /\ key \in DOMAIN registry
                /\ registry[key].ref_count = 1
                /\ lastOp'.calls = <<[fn |-> "unregister", hook |-> hook,
                                      handler |-> registry[key].handler]>>
                /\ installed[hook] = <<registry[key].handler>>
                /\ installed'[hook] = <<>>
                /\ key \notin DOMAIN registry'

C39_RemovesInstalledCallback == [][C39_Step]_vars

\* h2 removed the callback of a key on which h1 had registered and
\* unregistered as well
C39_Witness ==
    /\ disciplined
    /\ lastOp.op = "unregister"
    /\ lastOp.who = "h2"
    /\ Len(lastOp.calls) = 1
    /\ SameTarget("h1", "h2")
    /\ done["h1"]
    /\ done["h2"]
    /\ active["h3"] = 0
    /\ installed[HookOf("h2")] = <<>>

(* Properties of scopes of different kinds on one event *)

\* a TigrisFork block is open directly inside a TigrisSnapshotEnabled block
\* of the same client, and no other block is open
ForkInsideEnabled(c) ==
    /\ Len(stack) = 2
    /\ stack[1].scope = TigrisSnapshotEnabled(c)
    /\ stack[2].scope.kind = "TigrisFork"
    /\ stack[2].scope.client = c

\* C38: while a TigrisFork block is open inside a TigrisSnapshotEnabled block
\* of the same client, the CreateBucket key has one entry with a count of 2
\* and one installed callback, and a CreateBucket request issued there
\* carries X-Tigris-Enable-Snapshot together with X-Tigris-Fork-Source-Bucket
\* (with the source bucket of that fork, as long as no block was ever opened
\* inside the fork block); once no block is open, no CreateBucket entry
\* remains
C38_MixedNesting ==
    \A c \in ScopeClients :
        LET key  == <<IdOf(c), EventName("CreateBucket")>>
            hook == <<c, EventName("CreateBucket")>>
        IN  /\ ForkInsideEnabled(c) =>
                /\ key \in DOMAIN registry
                /\ registry[key].ref_count = 2
                /\ installed[hook] = <<registry[key].handler>>
                /\ (call.op = "request" /\ call.operation = "CreateBucket") =>
                      /\ HdrEnable \in DOMAIN call.sent
                      /\ call.sent[HdrEnable] = "true"
                      /\ HdrForkSource \in DOMAIN call.sent
                      /\ peak = 2 => call.sent[HdrForkSource] = stack[2].scope.bucket
            /\ stack = <<>> =>
                /\ key \notin DOMAIN registry
                /\ installed[hook] = <<>>

\* a CreateBucket request was issued inside both blocks
C38_Witness ==
    /\ ForkInsideEnabled("c1")
    /\ stack[2].scope.bucket = "bucket-b"
    /\ call.op = "request"
    /\ call.operation = "CreateBucket"
    /\ HdrEnable \in DOMAIN call.sent
    /\ HdrForkSource \in DOMAIN call.sent
    /\ call.sent[HdrForkSource] = "bucket-b"
    /\ registry[<<IdOf("c1"), EventName("CreateBucket")>>].ref_count = 2

(* Properties of an empty snapshot version *)

\* the handles of the scope just constructed that carry the version header
VersionHandles == { i \in 1 .. Len(call.injectors) :
                      HdrSnapshotVersion \in DOMAIN call.injectors[i].headers }

\* C33 as stated: a scope built with a snapshot version other than None is
\* pinned to it, the empty string included: TigrisSnapshot owns the four
\* read-operation handles, TigrisFork carries
\* X-Tigris-Fork-Source-Bucket-Snapshot
C33_EveryGivenVersionPins ==
    /\ (Constructed("TigrisSnapshot") /\ call.given.version # None) =>
          { call.injectors[i].event_name : i \in VersionHandles }
              = { EventName(ReadOperations[j]) : j \in 1 .. Len(ReadOperations) }
    /\ (Constructed("TigrisFork") /\ call.given.version # None) =>
          HdrForkSnapshot \in DOMAIN call.injectors[1].headers

\* C33, amended: a scope built with a non-empty snapshot version is pinned to
\* it; a scope built with the empty string is the scope built with None:
\* TigrisSnapshot owns its ListBuckets handle only, TigrisFork carries
\* X-Tigris-Fork-Source-Bucket only
C33_EmptyVersionNotPinned ==
    /\ Constructed("TigrisSnapshot") =>
          IF call.given.version \in {None, ""}
          THEN /\ VersionHandles = {}
               /\ Len(call.injectors) = 1
               /\ call.injectors[1].event_name = EventName("ListBuckets")
          ELSE /\ { call.injectors[i].event_name : i \in VersionHandles }
                    = { EventName(ReadOperations[j]) : j \in 1 .. Len(ReadOperations) }
               /\ \A i \in VersionHandles :
                     call.injectors[i].headers[HdrSnapshotVersion] = call.given.version
    /\ Constructed("TigrisFork") =>
          IF call.given.version \in {None, ""}
          THEN HdrForkSnapshot \notin DOMAIN call.injectors[1].headers
          ELSE /\ HdrForkSnapshot \in DOMAIN call.injectors[1].headers
               /\ call.injectors[1].headers[HdrForkSnapshot] = call.given.version

\* a snapshot scope was constructed with the empty string as its version
C33_Witness ==
    /\ Constructed("TigrisSnapshot")
    /\ call.given.version = ""
    /\ Len(call.injectors) = 1
    /\ VersionHandles = {}

(* Properties of the client identity *)

\* C34: whenever register() finds its key present and skips the client's
\* events.register, the callback of that entry is installed on the client
\* of the registering handle, for every sequence of clients and handles
\* created and dropped
C34_KeyNamesLiveClient ==
    \A h \in Handles :
        (lastOp.op = "register" /\ lastOp.who = h /\ ~lastOp.raised /\ lastOp.calls = <<>>) =>
            /\ RegistryKey(h) \in DOMAIN registry
            /\ \E i \in 1 .. Len(installed[HookOf(h)]) :
                  installed[HookOf(h)][i] = registry[RegistryKey(h)].handler

====
